---- MODULE Spec2Model ----
(***************************************************************************)
(* Model of the JSON persistence layer of server.js: readJson,             *)
(* writeJsonAtomic with its module-level promise chain (writeQueue),       *)
(* appendSubmission and patchSubmission.                                   *)
(*                                                                         *)
(* JavaScript values are tagged records; the text of a file is the syntax  *)
(* tree of the JSON it holds (or garbage, or a truncated prefix), so that  *)
(* JSON.stringify and JSON.parse are two different conversions.            *)
(***************************************************************************)
EXTENDS Integers, Sequences, FiniteSets, TLC

VARIABLES fs, jobs, pc, op, outcome, enqCount, completions, lastEnq, calls, rt

vars == <<fs, jobs, pc, op, outcome, enqCount, completions, lastEnq, calls, rt>>

(***************************************************************************)
(* Bounds of the model.                                                    *)
(***************************************************************************)
NumProcs == 2
MaxSeqAppends == 252
MaxLen == 2

Procs == 1..NumProcs

(***************************************************************************)
(* JavaScript values.                                                      *)
(***************************************************************************)
JStr(s) == [type |-> "string", s |-> s]
JNum(n) == [type |-> "number", n |-> n]
JBool(b) == [type |-> "boolean", b |-> b]
JNull == [type |-> "null"]
JUndefined == [type |-> "undefined"]
JNaN == [type |-> "nan"]
JArr(items) == [type |-> "array", items |-> items]
JObj(members) == [type |-> "object", members |-> members]
Member(k, v) == [key |-> k, value |-> v]

IsArray(v) == v.type = "array"

\* Own property lookup: obj[k], undefined when the key is absent.
HasKey(obj, k) == \E i \in 1..Len(obj.members) : obj.members[i].key = k
Get(obj, k) ==
  IF obj.type = "object" /\ HasKey(obj, k)
  THEN obj.members[CHOOSE i \in 1..Len(obj.members) : obj.members[i].key = k].value
  ELSE JUndefined

(***************************************************************************)
(* JSON text: the syntax tree of a file's content.                         *)
(***************************************************************************)
TStr(s) == [t |-> "t_string", s |-> s]
TNum(n) == [t |-> "t_number", n |-> n]
TLit(w) == [t |-> "t_literal", w |-> w]
TArr(items) == [t |-> "t_array", items |-> items]
TObj(members) == [t |-> "t_object", members |-> members]
TGarbage == [t |-> "t_garbage"]
NoText == [t |-> "t_none"]

\* JSON.stringify(value): undefined (and functions) have no JSON text; an
\* object member holding one is left out, an array element holding one is
\* written as null, and NaN is written as null.
Serializable_NoNull(v) == v.type \notin {"undefined", "null"}
Serializable(v) == v.type # "undefined"

RECURSIVE ToText(_)
ToText(v) ==
  CASE v.type = "string" -> TStr(v.s)
    [] v.type = "number" -> TNum(v.n)
    [] v.type = "boolean" -> TLit(IF v.b THEN "true" ELSE "false")
    [] v.type = "null" -> TLit("null")
    [] v.type = "nan" -> TLit("null")
    [] v.type = "undefined" -> NoText
    [] v.type = "array" ->
         TArr([i \in 1..Len(v.items) |->
                 IF ~Serializable(v.items[i]) THEN TLit("null")
                 ELSE ToText(v.items[i])])
    [] v.type = "object" ->
         LET kept == SelectSeq(v.members, LAMBDA m : Serializable(m.value))
         IN TObj([i \in 1..Len(kept) |-> Member(kept[i].key, ToText(kept[i].value))])

\* JSON.stringify(value, null, 2) + '\n': when stringify returns undefined the
\* concatenation is the text "undefined\n", which is not JSON.
Raw(v) == IF ToText(v) = NoText THEN TGarbage ELSE ToText(v)

\* JSON.parse on well-formed text.
RECURSIVE FromText(_)
FromText(x) ==
  CASE x.t = "t_string" -> JStr(x.s)
    [] x.t = "t_number" -> JNum(x.n)
    [] x.t = "t_literal" ->
         (IF x.w = "null" THEN JNull ELSE JBool(x.w = "true"))
    [] x.t = "t_array" -> JArr([i \in 1..Len(x.items) |-> FromText(x.items[i])])
    [] x.t = "t_object" ->
         JObj([i \in 1..Len(x.members) |->
                 Member(x.members[i].key, FromText(x.members[i].value))])

(***************************************************************************)
(* Files.  A file is absent, or holds a text; complete = FALSE is a text   *)
(* of which only a proper prefix has reached the file.                     *)
(***************************************************************************)
SITE_JSON_PATH == "data/site.json"
SUBMISSIONS_JSON_PATH == "data/submissions.json"
SiteTmp == "data/site.json.tmp"
SubmissionsTmp == "data/submissions.json.tmp"

Targets == {SITE_JSON_PATH, SUBMISSIONS_JSON_PATH}
Paths == Targets \cup {SiteTmp, SubmissionsTmp}

Absent == [kind |-> "absent"]
File(text, complete) == [kind |-> "file", text |-> text, complete |-> complete]

\* const tmpPath = `${filePath}.tmp`
TmpPath_InPlace(filePath) == filePath
TmpPath(filePath) ==
  IF filePath = SITE_JSON_PATH THEN SiteTmp ELSE SubmissionsTmp

\* JSON.parse(raw): a value, or a thrown SyntaxError.
Returned(v) == [ok |-> TRUE, value |-> v]
Thrown(code, name) == [ok |-> FALSE, code |-> code, name |-> name]

JSONparse(file) ==
  IF file.complete /\ file.text.t \notin {"t_garbage", "t_none"}
  THEN Returned(FromText(file.text))
  ELSE Thrown("none", "SyntaxError")

\* fs.readFile(filePath, 'utf8'): the content, ENOENT for an absent file, or
\* the I/O error the environment raises (ioerr # "none").
ReadFile(file, ioerr) ==
  IF ioerr # "none" THEN Thrown(ioerr, "Error")
  ELSE IF file.kind = "absent" THEN Thrown("ENOENT", "Error")
  ELSE Returned(file)

\* The catch clause of readJson.
IsFallbackError_Any(err) == TRUE
IsFallbackError_OnlyENOENT(err) == err.code = "ENOENT"
IsFallbackError(err) == err.code = "ENOENT" \/ err.name = "SyntaxError"

readJson(file, ioerr, fallbackValue) ==
  LET rd == ReadFile(file, ioerr)
      res == IF rd.ok THEN JSONparse(rd.value) ELSE rd
  IN IF res.ok THEN res
     ELSE IF IsFallbackError(res) THEN Returned(fallbackValue)
     ELSE res

(***************************************************************************)
(* The submission log: appendSubmission and patchSubmission.               *)
(***************************************************************************)
MAX == 250

\* The record POST /api/contact appends.
Submission(id, status) ==
  JObj(<<Member("id", JStr(id)), Member("createdAt", JStr("t")),
         Member("name", JStr("n")), Member("email", JStr("e@x.y")),
         Member("subject", JStr("s")), Member("message", JStr("m")),
         Member("status", JStr(status))>>)

\* crypto.randomBytes(10).toString('hex'): a fresh identifier per request.
FreshId(n) == ToString(n)

\* Array.isArray(current) ? current.slice() : []
SliceOrEmpty(current) == IF IsArray(current) THEN current.items ELSE <<>>

\* if (next.length > MAX) next.splice(0, next.length - MAX)
SpliceFront_DropsNewest(next) ==
  IF Len(next) > MAX THEN SubSeq(next, 1, MAX) ELSE next
SpliceFront(next) ==
  IF Len(next) > MAX THEN SubSeq(next, Len(next) - MAX + 1, Len(next)) ELSE next

\* The array appendSubmission hands to writeJsonAtomic.
AppendNext(current, submission) ==
  JArr(SpliceFront(Append(SliceOrEmpty(current), submission)))

\* next.findIndex((s) => s && s.id === id); 0 stands for -1.
Truthy(v) ==
  /\ v.type \notin {"null", "undefined", "nan"}
  /\ ~(v.type = "boolean" /\ ~v.b)
  /\ ~(v.type = "number" /\ v.n = 0)
  /\ ~(v.type = "string" /\ Len(v.s) = 0)
FindIndex(next, id) ==
  LET hits == {i \in 1..Len(next) : Truthy(next[i]) /\ Get(next[i], "id") = JStr(id)}
  IN IF hits = {} THEN 0 ELSE CHOOSE i \in hits : \A j \in hits : i <= j

\* target[k] = v: an existing key keeps its position, a new key goes last.
SetKey(obj, k, v) ==
  IF HasKey(obj, k)
  THEN JObj([i \in 1..Len(obj.members) |->
               IF obj.members[i].key = k THEN Member(k, v) ELSE obj.members[i]])
  ELSE JObj(Append(obj.members, Member(k, v)))

\* Object.assign({}, target, patch); a non-object target contributes nothing.
RECURSIVE AssignMembers(_, _)
AssignMembers(obj, ms) ==
  IF ms = <<>> THEN obj
  ELSE AssignMembers(SetKey(obj, Head(ms).key, Head(ms).value), Tail(ms))
ObjectAssign_Replace(target, patch) == patch
ObjectAssign(target, patch) ==
  AssignMembers(IF target.type = "object" THEN target ELSE JObj(<<>>), patch.members)

\* The array patchSubmission hands to writeJsonAtomic (idx is not -1).
PatchNext(current, id, patch) ==
  LET next == SliceOrEmpty(current)
      idx == FindIndex(next, id)
  IN JArr([next EXCEPT ![idx] = ObjectAssign(next[idx], patch)])

StatusPatch(s) == JObj(<<Member("status", JStr(s))>>)

(***************************************************************************)
(* The promise chain of writeJsonAtomic.  jobs holds the promises that are *)
(* still reachable: the queued writes in enqueue order, preceded by the    *)
(* last settled one when a queued write or writeQueue itself refers to it. *)
(***************************************************************************)
Settled(j) == j.state \in {"fulfilled", "rejected"}
Running(j) == j.state \in {"mkdir", "writeFile", "writing", "rename"}

Job(p, filePath, value, n) ==
  [owner |-> p, file |-> filePath, value |-> value, state |-> "pending",
   stamp |-> n, culprit |-> 0]

\* A settled promise is unreachable once the write chained on it has left
\* the pending state and writeQueue points further down the chain.
RECURSIVE Compact(_)
Compact(js) ==
  IF Len(js) <= 1 THEN js
  ELSE IF Settled(js[1]) /\ js[2].state # "pending" THEN Compact(Tail(js))
  ELSE <<js[1]>> \o Compact(Tail(js))

\* writeQueue.then(fn): fn runs once the previous promise is fulfilled; the
\* first write is chained on Promise.resolve().
CanStart_NoWait(k) == TRUE
CanStart(k) == IF k = 1 THEN TRUE ELSE jobs[k-1].state = "fulfilled"

\* A rejected previous promise rejects the chained one without calling fn.
MustSkip_Never(k) == FALSE
MustSkip(k) == IF k = 1 THEN FALSE ELSE jobs[k-1].state = "rejected"

\* What a caller observed: how its call ended, whether it enqueued a write
\* (stamp: its position in enqueue order), whether the body of that write was
\* called, whose failure rejected it, and how many writes had been enqueued
\* when it settled (seen).
NoOutcome ==
  [status |-> "none", enqueued |-> FALSE, ran |-> FALSE, culprit |-> 0,
   stamp |-> 0, seen |-> 0]
Outcome(status, enqueued, ran, culprit, stamp, seen) ==
  [status |-> status, enqueued |-> enqueued, ran |-> ran, culprit |-> culprit,
   stamp |-> stamp, seen |-> seen]

\* Where the caller awaiting a settled promise resumes: POST /api/contact
\* goes on to the mailer after its appendSubmission; every other caller
\* returns, and a rejection is thrown out of the handler.
Resume(p, state) ==
  IF state = "fulfilled" /\ op[p].kind = "append"
  THEN (IF op[p].then = "mail" THEN "mail" ELSE "done")
  ELSE "done"

\* The promise of job k settles and the awaiting caller resumes.
Settle(k, state, ran, culprit) ==
  /\ jobs' = Compact([jobs EXCEPT ![k].state = state, ![k].culprit = culprit])
  /\ pc' = [pc EXCEPT ![jobs[k].owner] = Resume(jobs[k].owner, state)]
  /\ outcome' = [outcome EXCEPT ![jobs[k].owner] =
                   Outcome(IF state = "fulfilled" THEN "ok" ELSE "error",
                           TRUE, ran, culprit, jobs[k].stamp, enqCount)]
  /\ completions' = completions + 1

\* writeQueue = writeQueue.then(...); return writeQueue
Enqueue_AtFront(p, filePath, value) ==
  /\ jobs' = <<Job(p, filePath, value, enqCount + 1)>> \o jobs
  /\ enqCount' = enqCount + 1
  /\ lastEnq' = [lastEnq EXCEPT ![filePath] = value]
  /\ pc' = [pc EXCEPT ![p] = "await"]
Enqueue(p, filePath, value) ==
  /\ jobs' = Append(jobs, Job(p, filePath, value, enqCount + 1))
  /\ enqCount' = enqCount + 1
  /\ lastEnq' = [lastEnq EXCEPT ![filePath] = value]
  /\ pc' = [pc EXCEPT ![p] = "await"]

(***************************************************************************)
(* Callers.  Each process of Procs is one request: a handler writing the   *)
(* document, an appendSubmission or a patchSubmission.                      *)
(***************************************************************************)
SiteDoc(title) ==
  JObj(<<Member("meta", JObj(<<Member("title", JStr(title))>>)),
         Member("hero", JObj(<<Member("enabled", JBool(TRUE))>>)),
         Member("about", JObj(<<Member("enabled", JBool(TRUE))>>))>>)

WriteValues == {SiteDoc("B"), SiteDoc("C")}
PatchIds == {"0", "1", "9"}
Statuses == {"sent", "send_failed", "email_not_configured"}

InitialSite == SiteDoc("A")
InitialLog == JArr(<<Submission("0", "received")>>)
EmptyArray == JArr(<<>>)

NoOp == [kind |-> "none"]
RtOff == [pc |-> "off"]

OnDisk(filePath, value) == File(Raw(value), TRUE)

InitCommon ==
  /\ jobs = <<>>
  /\ pc = [p \in Procs |-> "idle"]
  /\ op = [p \in Procs |-> NoOp]
  /\ outcome = [p \in Procs |-> NoOutcome]
  /\ enqCount = 0
  /\ completions = 0
  /\ lastEnq = [f \in Targets |-> JUndefined]
  /\ calls = 0

\* The server listens only when data/site.json holds a document.
Init ==
  /\ InitCommon
  /\ fs = [f \in Paths |->
             IF f = SITE_JSON_PATH THEN OnDisk(f, InitialSite)
             ELSE IF f = SUBMISSIONS_JSON_PATH THEN OnDisk(f, InitialLog)
             ELSE Absent]
  /\ rt = RtOff

\* await writeJsonAtomic(SITE_JSON_PATH, site) in a handler.
CallWrite(p, value) ==
  /\ pc[p] = "idle"
  /\ op' = [op EXCEPT ![p] = [kind |-> "write", value |-> value]]
  /\ Enqueue(p, SITE_JSON_PATH, value)
  /\ UNCHANGED <<fs, outcome, completions, calls, rt>>

\* appendSubmission(submission) is called: readJson is issued.
StartAppend(p) ==
  /\ op' = [op EXCEPT ![p] = [kind |-> "append", current |-> JUndefined, then |-> "return",
                              submission |-> Submission(FreshId(calls + 1), "received")]]
  /\ pc' = [pc EXCEPT ![p] = "read"]
  /\ calls' = calls + 1
  /\ UNCHANGED <<fs, jobs, outcome, enqCount, completions, lastEnq, rt>>

CallAppend(p) ==
  /\ pc[p] = "idle"
  /\ StartAppend(p)

\* patchSubmission(id, patch) is called: readJson is issued.
CallPatch(p, id, status) ==
  /\ pc[p] = "idle"
  /\ op' = [op EXCEPT ![p] = [kind |-> "patch", current |-> JUndefined, id |-> id,
                              patch |-> StatusPatch(status)]]
  /\ pc' = [pc EXCEPT ![p] = "read"]
  /\ UNCHANGED <<fs, jobs, outcome, enqCount, completions, lastEnq, calls, rt>>

CurrentLog == readJson(fs[SUBMISSIONS_JSON_PATH], "none", EmptyArray).value

\* appendSubmission: readJson returns; next is built and enqueued.
ReadThenAppend(p) ==
  /\ pc[p] = "read"
  /\ op[p].kind = "append"
  /\ op' = [op EXCEPT ![p].current = CurrentLog]
  /\ Enqueue(p, SUBMISSIONS_JSON_PATH, AppendNext(CurrentLog, op[p].submission))
  /\ UNCHANGED <<fs, outcome, completions, calls, rt>>

\* patchSubmission: readJson returns and the id is found.
ReadThenPatch(p) ==
  /\ pc[p] = "read"
  /\ op[p].kind = "patch"
  /\ FindIndex(SliceOrEmpty(CurrentLog), op[p].id) # 0
  /\ op' = [op EXCEPT ![p].current = CurrentLog]
  /\ Enqueue(p, SUBMISSIONS_JSON_PATH, PatchNext(CurrentLog, op[p].id, op[p].patch))
  /\ UNCHANGED <<fs, outcome, completions, calls, rt>>

\* patchSubmission: if (idx === -1) return.
ReadThenReturn_WritesAnyway(p) ==
  /\ pc[p] = "read"
  /\ op[p].kind = "patch"
  /\ FindIndex(SliceOrEmpty(CurrentLog), op[p].id) = 0
  /\ op' = [op EXCEPT ![p].current = CurrentLog]
  /\ Enqueue(p, SUBMISSIONS_JSON_PATH, JArr(SliceOrEmpty(CurrentLog)))
  /\ UNCHANGED <<fs, outcome, completions, calls, rt>>
ReadThenReturn(p) ==
  /\ pc[p] = "read"
  /\ op[p].kind = "patch"
  /\ FindIndex(SliceOrEmpty(CurrentLog), op[p].id) = 0
  /\ pc' = [pc EXCEPT ![p] = "done"]
  /\ outcome' = [outcome EXCEPT ![p] = Outcome("ok", FALSE, FALSE, 0, 0, enqCount)]
  /\ UNCHANGED <<fs, jobs, op, enqCount, completions, lastEnq, calls, rt>>

\* readJson rethrows an I/O error that is neither ENOENT nor a SyntaxError.
ReadError(p) ==
  /\ pc[p] = "read"
  /\ ~readJson(fs[SUBMISSIONS_JSON_PATH], "EACCES", EmptyArray).ok
  /\ pc' = [pc EXCEPT ![p] = "done"]
  /\ outcome' = [outcome EXCEPT ![p] = Outcome("error", FALSE, FALSE, p, 0, enqCount)]
  /\ UNCHANGED <<fs, jobs, op, enqCount, completions, lastEnq, calls, rt>>

(***************************************************************************)
(* The body of a queued write, one step per await.                         *)
(***************************************************************************)
\* The callback of writeQueue.then is called: ensureDir is issued.
JobStart(k) ==
  /\ jobs[k].state = "pending"
  /\ CanStart(k)
  /\ jobs' = Compact([jobs EXCEPT ![k].state = "mkdir"])
  /\ UNCHANGED <<fs, pc, op, outcome, enqCount, completions, lastEnq, calls, rt>>

\* The previous promise was rejected: this one is rejected with its reason.
JobSkip(k) ==
  /\ jobs[k].state = "pending"
  /\ MustSkip(k)
  /\ Settle(k, "rejected", FALSE, jobs[k-1].culprit)
  /\ UNCHANGED <<fs, op, enqCount, lastEnq, calls, rt>>

\* await ensureDir(...) returns: raw is built and fs.writeFile is issued.
MkdirOk(k) ==
  /\ jobs[k].state = "mkdir"
  /\ jobs' = [jobs EXCEPT ![k].state = "writeFile"]
  /\ UNCHANGED <<fs, pc, op, outcome, enqCount, completions, lastEnq, calls, rt>>

MkdirFail(k) ==
  /\ jobs[k].state = "mkdir"
  /\ Settle(k, "rejected", TRUE, jobs[k].owner)
  /\ UNCHANGED <<fs, op, enqCount, lastEnq, calls, rt>>

\* fs.writeFile opens the temporary file and has written a prefix of raw.
WriteFileOpen(k) ==
  /\ jobs[k].state = "writeFile"
  /\ jobs' = [jobs EXCEPT ![k].state = "writing"]
  /\ fs' = [fs EXCEPT ![TmpPath(jobs[k].file)] = File(Raw(jobs[k].value), FALSE)]
  /\ UNCHANGED <<pc, op, outcome, enqCount, completions, lastEnq, calls, rt>>

\* await fs.writeFile(tmpPath, raw) returns: fs.rename is issued.
WriteFileOk(k) ==
  /\ jobs[k].state = "writing"
  /\ jobs' = [jobs EXCEPT ![k].state = "rename"]
  /\ fs' = [fs EXCEPT ![TmpPath(jobs[k].file)] = File(Raw(jobs[k].value), TRUE)]
  /\ UNCHANGED <<pc, op, outcome, enqCount, completions, lastEnq, calls, rt>>

\* fs.writeFile rejects, before or after part of raw reached the file.
WriteFileFail(k) ==
  /\ jobs[k].state \in {"writeFile", "writing"}
  /\ Settle(k, "rejected", TRUE, jobs[k].owner)
  /\ UNCHANGED <<fs, op, enqCount, lastEnq, calls, rt>>

\* rename(2): the target takes the source's content in one step; renaming a
\* path onto itself does nothing.
Rename(files, from, to) ==
  IF from = to THEN files
  ELSE [files EXCEPT ![to] = files[from], ![from] = Absent]

\* await fs.rename(tmpPath, filePath) returns.
RenameOk(k) ==
  /\ jobs[k].state = "rename"
  /\ fs[TmpPath(jobs[k].file)].kind = "file"
  /\ fs' = Rename(fs, TmpPath(jobs[k].file), jobs[k].file)
  /\ Settle(k, "fulfilled", TRUE, 0)
  /\ UNCHANGED <<op, enqCount, lastEnq, calls, rt>>

RenameFail(k) ==
  /\ jobs[k].state = "rename"
  /\ Settle(k, "rejected", TRUE, jobs[k].owner)
  /\ UNCHANGED <<fs, op, enqCount, lastEnq, calls, rt>>

Next ==
  \/ \E p \in Procs, v \in WriteValues : CallWrite(p, v)
  \/ \E p \in Procs : CallAppend(p)
  \/ \E p \in Procs, id \in PatchIds, s \in Statuses : CallPatch(p, id, s)
  \/ \E p \in Procs : ReadThenAppend(p)
  \/ \E p \in Procs : ReadThenPatch(p)
  \/ \E p \in Procs : ReadThenReturn(p)
  \/ \E p \in Procs : ReadError(p)
  \/ \E k \in 1..Len(jobs) : JobStart(k)
  \/ \E k \in 1..Len(jobs) : JobSkip(k)
  \/ \E k \in 1..Len(jobs) : MkdirOk(k)
  \/ \E k \in 1..Len(jobs) : MkdirFail(k)
  \/ \E k \in 1..Len(jobs) : WriteFileOpen(k)
  \/ \E k \in 1..Len(jobs) : WriteFileOk(k)
  \/ \E k \in 1..Len(jobs) : WriteFileFail(k)
  \/ \E k \in 1..Len(jobs) : RenameOk(k)
  \/ \E k \in 1..Len(jobs) : RenameFail(k)

Spec == Init /\ [][Next]_vars

TypeOK ==
  /\ \A p \in Procs : pc[p] \in {"idle", "read", "await", "mail", "done"}
  /\ Len(jobs) <= NumProcs + 1

(***************************************************************************)
(* Sequential appends: one caller awaits each appendSubmission before the  *)
(* next, starting from an empty log (no file, or a file holding []).       *)
(***************************************************************************)
InitSeq ==
  /\ InitCommon
  /\ \E empty \in {Absent, OnDisk(SUBMISSIONS_JSON_PATH, EmptyArray)} :
       fs = [f \in Paths |->
               IF f = SITE_JSON_PATH THEN OnDisk(f, InitialSite)
               ELSE IF f = SUBMISSIONS_JSON_PATH THEN empty
               ELSE Absent]
  /\ rt = RtOff

SeqAppend ==
  /\ pc[1] \in {"idle", "done"}
  /\ calls < MaxSeqAppends
  /\ StartAppend(1)

NextSeq ==
  \/ SeqAppend
  \/ ReadThenAppend(1)
  \/ \E k \in 1..Len(jobs) : JobStart(k)
  \/ \E k \in 1..Len(jobs) : MkdirOk(k)
  \/ \E k \in 1..Len(jobs) : WriteFileOpen(k)
  \/ \E k \in 1..Len(jobs) : WriteFileOk(k)
  \/ \E k \in 1..Len(jobs) : RenameOk(k)

SpecSeq == InitSeq /\ [][NextSeq]_vars

(***************************************************************************)
(* One document written and read back, and one file read: the inputs of    *)
(* readJson and writeJsonAtomic drawn from bounded sets.                    *)
(***************************************************************************)
Atoms ==
  {JStr("a"), JStr(""), JNum(0), JNum(1), JBool(TRUE), JBool(FALSE),
   JNull, JUndefined, JNaN}

SeqsUpTo(S, n) == UNION {[1..m -> S] : m \in 0..n}
KeySeqs == {<<>>, <<"a">>, <<"b">>, <<"a", "b">>, <<"b", "a">>}

Flat ==
  Atoms
  \cup {JArr(items) : items \in SeqsUpTo(Atoms, MaxLen)}
  \cup UNION {{JObj([i \in 1..Len(ks) |-> Member(ks[i], vs[i])]) :
                 vs \in [1..Len(ks) -> Atoms]} : ks \in KeySeqs}

Docs ==
  Flat
  \cup {JObj(<<Member("k", v)>>) : v \in Flat}
  \cup {JArr(<<v>>) : v \in Flat}

\* A JSON value: no undefined and no NaN anywhere in it.
RECURSIVE ValidDoc(_)
ValidDoc(v) ==
  CASE v.type \in {"undefined", "nan"} -> FALSE
    [] v.type = "array" -> \A i \in 1..Len(v.items) : ValidDoc(v.items[i])
    [] v.type = "object" -> \A i \in 1..Len(v.members) : ValidDoc(v.members[i].value)
    [] OTHER -> TRUE

\* What the document file may hold before the call: nothing, text that is
\* not JSON, the prefix of a document, or a document.
StartFiles ==
  {Absent, File(TGarbage, TRUE), File(Raw(InitialSite), FALSE),
   OnDisk(SITE_JSON_PATH, InitialSite)}
Fallbacks == {JNull, EmptyArray}

InitRT ==
  /\ InitCommon
  /\ \E file \in StartFiles :
       fs = [f \in Paths |->
               IF f = SITE_JSON_PATH THEN file
               ELSE IF f = SUBMISSIONS_JSON_PATH THEN OnDisk(f, InitialLog)
               ELSE Absent]
  /\ \E d \in Docs, fb \in Fallbacks :
       rt = [pc |-> "start", doc |-> d, fallback |-> fb, wrote |-> FALSE,
             ioerr |-> "none", res |-> Returned(JUndefined)]

\* A writeJsonAtomic(SITE_JSON_PATH, doc) that completes: raw is written
\* to the temporary file, which is renamed onto the target.
RtWrite ==
  /\ rt.pc = "start"
  /\ fs' = Rename([fs EXCEPT ![TmpPath(SITE_JSON_PATH)] = File(Raw(rt.doc), TRUE)],
                  TmpPath(SITE_JSON_PATH), SITE_JSON_PATH)
  /\ rt' = [rt EXCEPT !.pc = "written", !.wrote = TRUE]
  /\ UNCHANGED <<jobs, pc, op, outcome, enqCount, completions, lastEnq, calls>>

\* readJson(SITE_JSON_PATH, fallback) with the I/O error ioerr, if any.
RtReadWith(ioerr) ==
  /\ rt.pc \in {"start", "written"}
  /\ rt' = [rt EXCEPT !.pc = "read", !.ioerr = ioerr,
                      !.res = readJson(fs[SITE_JSON_PATH], ioerr, rt.fallback)]
  /\ UNCHANGED <<fs, jobs, pc, op, outcome, enqCount, completions, lastEnq, calls>>

RtRead == RtReadWith("none")
RtReadError == RtReadWith("EACCES")
RtReadDeviceError == RtReadWith("EIO")

NextRT ==
  \/ RtWrite
  \/ RtRead
  \/ RtReadError
  \/ RtReadDeviceError

SpecRT == InitRT /\ [][NextRT]_vars

(***************************************************************************)
(* POST /api/contact, for requests that pass its input checks: the record  *)
(* is appended with status 'received', the mail is attempted, and the      *)
(* record is patched with the outcome.                                     *)
(***************************************************************************)
\* appendSubmission({id: submissionId, ..., status: 'received'}) is called.
CallContact(p) ==
  /\ pc[p] = "idle"
  /\ op' = [op EXCEPT ![p] = [kind |-> "append", current |-> JUndefined, then |-> "mail",
                              submission |-> Submission(FreshId(calls + 1), "received")]]
  /\ pc' = [pc EXCEPT ![p] = "read"]
  /\ calls' = calls + 1
  /\ UNCHANGED <<fs, jobs, outcome, enqCount, completions, lastEnq, rt>>

\* buildMailer() returns null or requireEnv throws ('email_not_configured'),
\* or sendMail returns ('sent') or throws ('send_failed'); patchSubmission is
\* called with that status.
ContactMail(p, status) ==
  /\ pc[p] = "mail"
  /\ op' = [op EXCEPT ![p] = [kind |-> "patch", current |-> JUndefined,
                              id |-> Get(op[p].submission, "id").s,
                              patch |-> StatusPatch(status)]]
  /\ pc' = [pc EXCEPT ![p] = "read"]
  /\ UNCHANGED <<fs, jobs, outcome, enqCount, completions, lastEnq, calls, rt>>

NextContact ==
  \/ \E p \in Procs : CallContact(p)
  \/ \E p \in Procs, s \in Statuses : ContactMail(p, s)
  \/ \E p \in Procs : ReadThenAppend(p)
  \/ \E p \in Procs : ReadThenPatch(p)
  \/ \E p \in Procs : ReadThenReturn(p)
  \/ \E p \in Procs : ReadError(p)
  \/ \E k \in 1..Len(jobs) : JobStart(k)
  \/ \E k \in 1..Len(jobs) : JobSkip(k)
  \/ \E k \in 1..Len(jobs) : MkdirOk(k)
  \/ \E k \in 1..Len(jobs) : MkdirFail(k)
  \/ \E k \in 1..Len(jobs) : WriteFileOpen(k)
  \/ \E k \in 1..Len(jobs) : WriteFileOk(k)
  \/ \E k \in 1..Len(jobs) : WriteFileFail(k)
  \/ \E k \in 1..Len(jobs) : RenameOk(k)
  \/ \E k \in 1..Len(jobs) : RenameFail(k)

SpecContact == Init /\ [][NextContact]_vars

(***************************************************************************)
(* Properties of the write queue.                                          *)
(***************************************************************************)
Quiescent == \A p \in Procs : pc[p] \in {"idle", "done"}
NoCallFailed == \A p \in Procs : outcome[p].status # "error"
RunningJobs == {k \in 1..Len(jobs) : Running(jobs[k])}

\* C1: when a queued write fails the queue still advances: the body of every
\* write enqueued through writeJsonAtomic is executed, whatever happened to
\* the writes enqueued before it.
C1_QueueAdvancesAfterFailure ==
  \A p \in Procs :
    (outcome[p].status # "none" /\ outcome[p].enqueued) => outcome[p].ran

\* C2: a failed write is reported only to the caller that enqueued it: a
\* caller's promise is rejected only by a failure of its own write.
C2_FailureOnlyToOwnCaller ==
  \A p \in Procs :
    (outcome[p].enqueued /\ outcome[p].status = "error") => outcome[p].culprit = p

\* C3: concurrent appends lose no entry: once every caller has completed an
\* appendSubmission successfully, the log on disk holds the records that
\* were there before and every appended record.
C3_ConcurrentAppendsKeepAll ==
  (\A p \in Procs : pc[p] = "done" /\ op[p].kind = "append" /\ outcome[p].status = "ok")
    => /\ Len(CurrentLog.items) = Len(InitialLog.items) + NumProcs
       /\ \A p \in Procs :
            \E i \in 1..Len(CurrentLog.items) : CurrentLog.items[i] = op[p].submission

\* C4: queued writes execute one at a time and in enqueue order: at most one
\* write body is in progress, the chain is in enqueue order, and a write has
\* not begun while a write enqueued before it is unsettled.
C4_OneWriteAtATime ==
  /\ Cardinality(RunningJobs) <= 1
  /\ \A i, j \in 1..Len(jobs) :
       /\ (i < j) => (jobs[i].stamp < jobs[j].stamp)
       /\ (jobs[i].stamp < jobs[j].stamp /\ jobs[j].state # "pending")
            => Settled(jobs[i])

\* Two callers have enqueued; the first is writing the temporary file while
\* the second waits.
C4_Witness ==
  \E i, j \in 1..Len(jobs) :
    /\ jobs[i].state = "writing"
    /\ jobs[j].state = "pending"
    /\ jobs[i].owner # jobs[j].owner

\* C5: N writes enqueued concurrently, without I/O failure, give one
\* completion per enqueued write, and once all have completed each file
\* holds the value enqueued last for it.
C5_LastWriterWins ==
  (Quiescent /\ NoCallFailed) =>
    /\ completions = enqCount
    /\ \A f \in Targets :
         lastEnq[f] # JUndefined =>
           readJson(fs[f], "none", JUndefined) = Returned(lastEnq[f])

\* Two callers wrote different documents, the second enqueued before the
\* first write completed, and both completed.
C5_Witness ==
  \E p, q \in Procs :
    /\ pc[p] = "done" /\ pc[q] = "done"
    /\ op[p].kind = "write" /\ op[q].kind = "write"
    /\ op[p].value # op[q].value
    /\ outcome[p].status = "ok" /\ outcome[q].status = "ok"
    /\ outcome[p].stamp < outcome[q].stamp
    /\ outcome[q].stamp <= outcome[p].seen
    /\ completions = 2
    /\ fs[SITE_JSON_PATH] = OnDisk(SITE_JSON_PATH, op[q].value)

\* C6: the file at a target path is never torn: it always holds a complete
\* text, and a step either leaves it as it was or replaces it, in one step,
\* by the complete text of the write whose rename completes.
TargetsComplete ==
  \A f \in Targets : fs[f].kind = "file" => fs[f].complete
PriorOrNew ==
  \A f \in Targets :
    \/ fs'[f] = fs[f]
    \/ \E k \in 1..Len(jobs) :
         /\ jobs[k].file = f
         /\ jobs[k].state = "rename"
         /\ fs'[f] = File(Raw(jobs[k].value), TRUE)
C6_NoTornRead == []TargetsComplete /\ [][PriorOrNew]_vars

\* A write is in the middle of writing its temporary file, which holds only
\* part of the new text, while the target still holds the prior document.
C6_Witness ==
  \E k \in 1..Len(jobs) :
    /\ jobs[k].state = "writing"
    /\ ~fs[TmpPath(jobs[k].file)].complete
    /\ fs[jobs[k].file].complete
    /\ fs[jobs[k].file].text # Raw(jobs[k].value)

(***************************************************************************)
(* Properties of the submission log.                                       *)
(***************************************************************************)
\* The record at index i differs from what it was in the status member only.
SameButStatus(before, after, status) ==
  /\ after.type = "object"
  /\ Len(after.members) = Len(before.members)
  /\ \A m \in 1..Len(before.members) :
       /\ after.members[m].key = before.members[m].key
       /\ IF before.members[m].key = "status"
          THEN after.members[m].value = JStr(status)
          ELSE after.members[m].value = before.members[m].value

\* The log after differs from the log before only in the status of the first
\* record with the given id.
OnlyStatusChanged(before, after, id, status) ==
  LET idx == FindIndex(before, id)
  IN /\ idx # 0
     /\ Len(after) = Len(before)
     /\ \A i \in 1..Len(before) :
          IF i = idx THEN SameButStatus(before[i], after[i], status)
          ELSE after[i] = before[i]

\* C10: patchSubmission(id, {status: s}) on an id present in the log changes
\* only the status of the record with that id; the other members of the
\* record, the other records, and the order and length of the log are kept.
\* The array it enqueues differs in nothing else from the log it read, and
\* when no other write reached the log since that read, its rename changes
\* nothing else on disk.
PatchWrites ==
  \A p \in Procs :
    (pc[p] = "read" /\ op[p].kind = "patch" /\ pc'[p] = "await")
    => OnlyStatusChanged(CurrentLog.items, jobs'[Len(jobs')].value.items,
                         op[p].id, Get(op[p].patch, "status").s)
PatchEffect ==
  \A k \in 1..Len(jobs) :
    LET p == jobs[k].owner IN
    (/\ jobs[k].state = "rename"
     /\ op[p].kind = "patch"
     /\ outcome'[p].status = "ok"
     /\ CurrentLog = op[p].current)
    => OnlyStatusChanged(CurrentLog.items, CurrentLog'.items,
                         op[p].id, Get(op[p].patch, "status").s)
C10_PatchChangesOnlyStatus == [][PatchWrites /\ PatchEffect]_vars

\* A patch of a record of a two-record log has completed: the record's
\* status on disk is the patched one and the log still has both records.
C10_Witness ==
  \E p \in Procs :
    /\ pc[p] = "done"
    /\ op[p].kind = "patch"
    /\ outcome[p].status = "ok" /\ outcome[p].enqueued
    /\ Len(op[p].current.items) = 2
    /\ Len(CurrentLog.items) = 2
    /\ LET idx == FindIndex(CurrentLog.items, op[p].id)
       IN /\ idx # 0
          /\ Get(op[p].current.items[idx], "status") = JStr("received")
          /\ Get(CurrentLog.items[idx], "status") = Get(op[p].patch, "status")

\* C9: after n sequential appendSubmission calls from an empty log the log
\* holds exactly the min(n, 250) most recently appended records in arrival
\* order; it never exceeds 250 records and loses records only at the front.
C9_KeepsNewest250 ==
  LET n == completions
      m == IF n < MAX THEN n ELSE MAX
  IN /\ Len(CurrentLog.items) <= MAX
     /\ CurrentLog.items =
          [i \in 1..m |-> Submission(FreshId(n - m + i), "received")]

\* More than 250 appends have completed: the log is full and its oldest
\* record is no longer the first one appended.
C9_Witness ==
  /\ completions > MAX
  /\ pc[1] = "done"
  /\ Len(CurrentLog.items) = MAX
  /\ Get(CurrentLog.items[1], "id") = JStr(FreshId(completions - MAX + 1))
  /\ Get(CurrentLog.items[MAX], "id") = JStr(FreshId(completions))

(***************************************************************************)
(* Properties of readJson and of the write/read round trip.                *)
(***************************************************************************)
\* C7: a completed writeJsonAtomic(path, D) of a valid document D followed
\* by readJson(path, fallback) returns a value structurally equal to D.
C7_RoundTrip ==
  (rt.pc = "read" /\ rt.wrote /\ rt.ioerr = "none" /\ ValidDoc(rt.doc))
    => rt.res = Returned(rt.doc)

\* A nested document (an object holding a two-element array) was written
\* over a file that did not hold it and was read back.
C7_Witness ==
  /\ rt.pc = "read" /\ rt.wrote /\ rt.ioerr = "none"
  /\ rt.doc = JObj(<<Member("k", JArr(<<JNull, JStr("a")>>))>>)
  /\ rt.res = Returned(rt.doc)
  /\ rt.res.value # rt.fallback

\* C8: readJson returns the fallback, and raises nothing, when the file
\* does not exist or when its content does not parse.
Unparsable(file) ==
  file.kind = "file" /\ (~file.complete \/ file.text = TGarbage)
C8_FallbackOnMissingOrInvalid ==
  (/\ rt.pc = "read"
   /\ rt.ioerr = "none"
   /\ (fs[SITE_JSON_PATH] = Absent \/ Unparsable(fs[SITE_JSON_PATH])))
    => rt.res = Returned(rt.fallback)

\* A file holding text that is not JSON was read with the fallback [].
C8_Witness ==
  /\ rt.pc = "read"
  /\ rt.ioerr = "none"
  /\ fs[SITE_JSON_PATH] = File(TGarbage, TRUE)
  /\ rt.fallback = EmptyArray
  /\ rt.res = Returned(EmptyArray)

\* The identifiers of the records of a log, in order.
LogIds(log) == [i \in 1..Len(log.items) |-> Get(log.items[i], "id")]
InLog(log, id) == \E i \in 1..Len(log.items) : Get(log.items[i], "id") = JStr(id)

\* C11: patchSubmission on an id that no record of the log has leaves the
\* log unchanged, enqueues no write, and completes without raising an error
\* (its readJson having returned).
PatchAbsentId ==
  \A p \in Procs :
    (/\ pc[p] = "read"
     /\ op[p].kind = "patch"
     /\ ~InLog(CurrentLog, op[p].id)
     /\ pc'[p] # "read"
     /\ ~ReadError(p))
    => /\ pc'[p] = "done"
       /\ outcome'[p].status = "ok"
       /\ ~outcome'[p].enqueued
       /\ jobs' = jobs
       /\ enqCount' = enqCount
       /\ fs' = fs
C11_PatchOfAbsentIdIsNoOp == [][PatchAbsentId]_vars

\* A patch of an id that is not in the log has returned: nothing was
\* enqueued and the log is the initial one.
C11_Witness ==
  \E p \in Procs :
    /\ pc[p] = "done"
    /\ op[p].kind = "patch"
    /\ op[p].id = "9"
    /\ outcome[p].status = "ok"
    /\ ~outcome[p].enqueued
    /\ enqCount = 0
    /\ CurrentLog = InitialLog

\* C13: a record whose append has completed is never removed from the log
\* individually: a step that removes it from the on-disk log is an eviction,
\* the log being full afterwards.
Appended(p) ==
  /\ pc[p] = "done"
  /\ op[p].kind = "append"
  /\ outcome[p].status = "ok"
NoIndividualRemoval ==
  \A p \in Procs :
    (/\ Appended(p)
     /\ InLog(CurrentLog, Get(op[p].submission, "id").s)
     /\ ~InLog(CurrentLog', Get(op[p].submission, "id").s))
    => Len(CurrentLog'.items) = MAX
C13_NeverRemovedIndividually == [][NoIndividualRemoval]_vars

(***************************************************************************)
(* Liveness of the write queue.  Every file-system call eventually         *)
(* completes or fails, and a promise reaction that is ready is run.         *)
(***************************************************************************)
Fairness ==
  /\ WF_vars(\E k \in 1..Len(jobs) : JobStart(k) \/ JobSkip(k))
  /\ WF_vars(\E k \in 1..Len(jobs) : MkdirOk(k) \/ MkdirFail(k))
  /\ WF_vars(\E k \in 1..Len(jobs) :
               WriteFileOpen(k) \/ WriteFileOk(k) \/ WriteFileFail(k))
  /\ WF_vars(\E k \in 1..Len(jobs) : RenameOk(k) \/ RenameFail(k))

\* Callers that only call writeJsonAtomic.
NextWrites ==
  \/ \E p \in Procs, v \in WriteValues : CallWrite(p, v)
  \/ \E k \in 1..Len(jobs) : JobStart(k)
  \/ \E k \in 1..Len(jobs) : JobSkip(k)
  \/ \E k \in 1..Len(jobs) : MkdirOk(k)
  \/ \E k \in 1..Len(jobs) : MkdirFail(k)
  \/ \E k \in 1..Len(jobs) : WriteFileOpen(k)
  \/ \E k \in 1..Len(jobs) : WriteFileOk(k)
  \/ \E k \in 1..Len(jobs) : WriteFileFail(k)
  \/ \E k \in 1..Len(jobs) : RenameOk(k)
  \/ \E k \in 1..Len(jobs) : RenameFail(k)

FairSpec == Init /\ [][NextWrites]_vars /\ Fairness

\* C14: every write accepted by writeJsonAtomic eventually settles: the
\* caller awaiting its promise eventually resumes, resolved or rejected,
\* whatever happened to the writes enqueued before it.
C14_EveryWriteSettles ==
  \A p \in Procs : (pc[p] = "await") ~> (pc[p] = "done")

\* A caller's promise has settled (by rejection) after the write enqueued
\* before it had failed.
C14_Witness ==
  \E p \in Procs :
    /\ pc[p] = "done"
    /\ outcome[p].enqueued
    /\ outcome[p].status = "error"
    /\ outcome[p].culprit # p
    /\ outcome[p].culprit # 0

\* C12: status transitions are one-directional: once the on-disk record of
\* an id has status 'sent', 'send_failed' or 'email_not_configured', no
\* later on-disk state shows that id with status 'received'.
NoBackToReceived ==
  \A i \in 1..Len(CurrentLog.items) :
    Get(CurrentLog.items[i], "status") \in {JStr(s) : s \in Statuses}
    => \A j \in 1..Len(CurrentLog'.items) :
         Get(CurrentLog'.items[j], "id") = Get(CurrentLog.items[i], "id")
         => Get(CurrentLog'.items[j], "status") # JStr("received")
C12_StatusNeverBackToReceived == [][NoBackToReceived]_vars

(***************************************************************************)
(* Strings of the admin forms.  A string whose characters matter is the    *)
(* sequence of its characters, so that trim, length and split are          *)
(* computed; every string of the documents of SpecAdmin has this form.     *)
(***************************************************************************)
Rep(c, n) == [i \in 1..n |-> c]
Least(S) == CHOOSE i \in S : \A j \in S : i <= j
Greatest(S) == CHOOSE i \in S : \A j \in S : j <= i

\* String.prototype.trim: white space and line terminators off both ends.
IsSpace(c) == c \in {" ", "\t", "\n", "\r"}
Trim_Nothing(s) == s
Trim(s) ==
  LET keep == {i \in 1..Len(s) : ~IsSpace(s[i])}
  IN IF keep = {} THEN <<>> ELSE SubSeq(s, Least(keep), Greatest(keep))

\* s.split(sep) for a one-character separator: one part more than there are
\* separators; ''.split(sep) is [''].
Split(s, sep) ==
  LET at == {i \in 1..Len(s) : s[i] = sep}
      nth(k) == CHOOSE i \in at : Cardinality({j \in at : j < i}) = k - 1
      n == Cardinality(at) + 1
  IN [k \in 1..n |->
        SubSeq(s, IF k = 1 THEN 1 ELSE nth(k - 1) + 1,
                  IF k = n THEN Len(s) ELSE nth(k) - 1)]

\* parts.join(sep)
RECURSIVE Join(_, _)
Join(parts, sep) ==
  IF parts = <<>> THEN <<>>
  ELSE IF Len(parts) = 1 THEN parts[1]
  ELSE parts[1] \o sep \o Join(Tail(parts), sep)

\* array.slice(0, max)
SliceTo(xs, max) == SubSeq(xs, 1, IF Len(xs) < max THEN Len(xs) ELSE max)

\* String(v) for the values a parsed form holds.
ToStr(v) ==
  CASE v.type = "string" -> v.s
    [] v.type = "undefined" -> <<"u", "n", "d", "e", "f", "i", "n", "e", "d">>
    [] v.type = "null" -> <<"n", "u", "l", "l">>
    [] v.type = "array" ->
         Join([i \in 1..Len(v.items) |->
                 IF v.items[i].type = "string" THEN v.items[i].s ELSE <<>>], <<",">>)
    [] v.type = "object" ->
         <<"[", "o", "b", "j", "e", "c", "t", " ", "O", "b", "j", "e", "c", "t", "]">>

\* String(v == null ? '' : v).trim()
asTrimmedString_NoTrim(v) ==
  IF v.type \in {"null", "undefined"} THEN <<>> ELSE ToStr(v)
asTrimmedString(v) ==
  Trim(IF v.type \in {"null", "undefined"} THEN <<>> ELSE ToStr(v))

\* String(v || '').trim()
TrimmedOrEmpty(v) == Trim(IF Truthy(v) THEN ToStr(v) ELSE <<>>)

\* p && p.k
AndGet(p, k) == IF Truthy(p) THEN Get(p, k) ELSE p

\* normalizeArray(v)
normalizeArray(v) ==
  IF v.type \in {"null", "undefined"} THEN <<>>
  ELSE IF IsArray(v) THEN v.items ELSE <<v>>

\* parseEnabled(v)
parseEnabled(v) ==
  \E i \in 1..Len(normalizeArray(v)) : Trim(ToStr(normalizeArray(v)[i])) = <<"1">>

\* raw.split(sep).map(trim).filter(Boolean).slice(0, max), '' giving [].
SplitTrimmed_CapFirst(raw, sep, max) ==
  IF raw = <<>> THEN <<>>
  ELSE LET parts == SliceTo(Split(raw, sep), max)
           trimmed == [i \in 1..Len(parts) |-> Trim(parts[i])]
       IN SelectSeq(trimmed, LAMBDA l : l # <<>>)
SplitTrimmed(raw, sep, max) ==
  IF raw = <<>> THEN <<>>
  ELSE LET parts == Split(raw, sep)
           trimmed == [i \in 1..Len(parts) |-> Trim(parts[i])]
       IN SliceTo(SelectSeq(trimmed, LAMBDA l : l # <<>>), max)

\* splitLines(v, max) and splitCsv(v, max)
splitLines(v, max) == SplitTrimmed(asTrimmedString(v), "\n", max)
splitCsv(v, max) == SplitTrimmed(asTrimmedString(v), ",", max)

\* An array of strings as a JavaScript value.
StrArr(ss) == JArr([i \in 1..Len(ss) |-> JStr(ss[i])])


(***************************************************************************)
(* The admin section handlers as functions of the parsed form (req.body)   *)
(* and of the document read from site.json: the reason of the redirect     *)
(* that rejects the form (NoError when none does) and the document handed  *)
(* to writeJsonAtomic.                                                     *)
(***************************************************************************)
NoError == ""
Field(body, k) == asTrimmedString(Get(body, k))
HeroField(body, k) == TrimmedOrEmpty(Get(body, k))
Text(k, s) == Member(k, JStr(s))

\* !site || typeof site !== 'object'
MissingSite(site) == ~Truthy(site) \/ site.type \notin {"object", "array"}

\* site[key] = Object.assign({}, site[key], {...assigned})
MergeSection_Replace(site, key, assigned) == SetKey(site, key, JObj(assigned))
MergeSection(site, key, assigned) ==
  SetKey(site, key, ObjectAssign(Get(site, key), JObj(assigned)))

\* The length limits of the handlers.
MetaTitleMax == 120
MetaDescriptionMax == 240
OgImageMax == 300
GreetingMax == 80
NameMax == 40
HeroDescriptionMax == 320
ScrollTextMax == 40
CtaLabelMax == 40
CtaHrefMax == 240
HeroTitlesCap == 12
NumberMax == 10
SectionTitleMax == 60
FiltersCap == 30
TechCap == 20
CardsCap == 40
DetailsLinesCap == 40
TagsCap == 30
ItemsCap == 30
ContactDescriptionMax == 500
ContactGroupsCap == 12

\* POST /admin/meta
MetaError(body) ==
  IF Field(body, "title") = <<>> THEN "Title is required"
  ELSE IF Len(Field(body, "title")) > MetaTitleMax THEN "Title too long"
  ELSE IF Len(Field(body, "description")) > MetaDescriptionMax THEN "Description too long"
  ELSE IF Len(Field(body, "ogImage")) > OgImageMax THEN "OG image URL too long"
  ELSE NoError
MetaSite(site, body) ==
  MergeSection(site, "meta",
    <<Text("title", Field(body, "title")),
      Text("description", Field(body, "description")),
      Text("ogImage", Field(body, "ogImage"))>>)

\* POST /admin/hero
HeroError(body) ==
  IF Len(HeroField(body, "greeting")) > GreetingMax THEN "Greeting too long"
  ELSE IF HeroField(body, "firstName") = <<>> THEN "First name is required"
  ELSE IF HeroField(body, "lastName") = <<>> THEN "Last name is required"
  ELSE IF Len(HeroField(body, "firstName")) > NameMax THEN "First name too long"
  ELSE IF Len(HeroField(body, "lastName")) > NameMax THEN "Last name too long"
  ELSE IF Len(HeroField(body, "description")) > HeroDescriptionMax THEN "Description too long"
  ELSE IF Len(HeroField(body, "scrollText")) > ScrollTextMax THEN "Scroll text too long"
  ELSE IF Len(HeroField(body, "cta1Label")) > CtaLabelMax
          \/ Len(HeroField(body, "cta2Label")) > CtaLabelMax THEN "CTA text too long"
  ELSE IF Len(HeroField(body, "cta1Href")) > CtaHrefMax
          \/ Len(HeroField(body, "cta2Href")) > CtaHrefMax THEN "CTA URL too long"
  ELSE NoError

\* Object.assign({ style, icon: '' }, currentCtas[i] || {}), then label and
\* href when the form gives them.
HeroCta(style, current, label, href) ==
  LET base == ObjectAssign(JObj(<<Text("style", style), Text("icon", <<>>)>>),
                           IF current.type = "object" THEN current ELSE JObj(<<>>))
      withLabel == IF label # <<>> THEN SetKey(base, "label", JStr(label)) ELSE base
  IN IF href # <<>> THEN SetKey(withLabel, "href", JStr(href)) ELSE withLabel

HeroSite(site, body) ==
  LET old == IF Truthy(Get(site, "hero")) /\ Get(site, "hero").type \in {"object", "array"}
             THEN Get(site, "hero") ELSE JObj(<<>>)
      titlesRaw == IF Truthy(Get(body, "titles")) THEN ToStr(Get(body, "titles")) ELSE <<>>
      hero == ObjectAssign(old,
                JObj(<<Member("enabled", JBool(parseEnabled(Get(body, "enabled")))),
                       Text("greeting", HeroField(body, "greeting")),
                       Text("firstName", HeroField(body, "firstName")),
                       Text("lastName", HeroField(body, "lastName")),
                       Text("description", HeroField(body, "description")),
                       Text("scrollText", HeroField(body, "scrollText")),
                       Member("titles", StrArr(SplitTrimmed(titlesRaw, "\n", HeroTitlesCap)))>>))
      currentCtas == SliceOrEmpty(Get(hero, "ctas"))
      at(i) == IF i > Len(currentCtas) THEN JObj(<<>>)
               ELSE IF Truthy(currentCtas[i]) THEN currentCtas[i] ELSE JObj(<<>>)
      cta1 == HeroCta(<<"p", "r", "i", "m", "a", "r", "y">>, at(1),
                      HeroField(body, "cta1Label"), HeroField(body, "cta1Href"))
      cta2 == HeroCta(<<"o", "u", "t", "l", "i", "n", "e">>, at(2),
                      HeroField(body, "cta2Label"), HeroField(body, "cta2Href"))
      shown(c) == Truthy(Get(c, "label")) \/ Truthy(Get(c, "href"))
  IN SetKey(site, "hero",
            SetKey(hero, "ctas", JArr(SelectSeq(<<cta1, cta2>>, shown))))


\* groups.map(f).filter(Boolean).slice(0, cap): f gives null for a group it
\* drops.
KeepGroups_CapFirst(mapped, cap) == SelectSeq(SliceTo(mapped, cap), Truthy)
KeepGroups(mapped, cap) == SliceTo(SelectSeq(mapped, Truthy), cap)

\* The label|value lines of the project filters.
ProjectFilter(line) ==
  LET parts == [i \in 1..Len(Split(line, "|")) |-> Trim(Split(line, "|")[i])]
      label == parts[1]
      value == Trim(Join(Tail(parts), <<" ", "|", " ">>))
  IN IF label = <<>> \/ value = <<>> THEN JNull
     ELSE JObj(<<Text("label", label), Text("value", value)>>)

\* One element of req.body.cards.
ProjectCard(p) ==
  LET f(k) == asTrimmedString(AndGet(p, k))
      card == JObj(<<Text("category", f("category")),
                     Text("frontIcon", f("frontIcon")),
                     Text("frontTitle", f("frontTitle")),
                     Text("frontDesc", f("frontDesc")),
                     Text("backTitle", f("backTitle")),
                     Text("backDesc", f("backDesc")),
                     Member("tech", StrArr(splitCsv(AndGet(p, "techCsv"), TechCap)))>>)
  IN IF f("frontTitle") = <<>> THEN JNull
     ELSE IF f("linkLabel") = <<>> /\ f("linkHref") = <<>> /\ f("linkIcon") = <<>> THEN card
     ELSE IF f("linkType") = <<"s", "t", "a", "t", "u", "s">>
       THEN SetKey(card, "link",
                   JObj(<<Text("type", <<"s", "t", "a", "t", "u", "s">>),
                          Text("icon", f("linkIcon")), Text("label", f("linkLabel"))>>))
     ELSE SetKey(card, "link",
                 JObj(<<Text("href", f("linkHref")), Text("icon", f("linkIcon")),
                        Text("label", f("linkLabel"))>>))

\* number, title: the checks shared by the numbered sections.
SectionError(body) ==
  IF Len(Field(body, "number")) > NumberMax THEN "Number too long"
  ELSE IF Field(body, "title") = <<>> THEN "Title is required"
  ELSE IF Len(Field(body, "title")) > SectionTitleMax THEN "Title too long"
  ELSE NoError

\* POST /admin/projects
ProjectsError(body) == SectionError(body)
ProjectsCards(body) ==
  LET groups == normalizeArray(Get(body, "cards"))
  IN KeepGroups([i \in 1..Len(groups) |-> ProjectCard(groups[i])], CardsCap)
ProjectsSite(site, body) ==
  LET lines == splitLines(Get(body, "filtersLines"), FiltersCap)
      filters == SelectSeq([i \in 1..Len(lines) |-> ProjectFilter(lines[i])], Truthy)
  IN MergeSection(site, "projects",
       <<Member("enabled", JBool(parseEnabled(Get(body, "enabled")))),
         Text("number", Field(body, "number")),
         Text("title", Field(body, "title")),
         Member("filters", JArr(filters)),
         Member("cards", JArr(ProjectsCards(body)))>>)

\* One element of req.body.items.
ExperienceItem(it) ==
  LET f(k) == asTrimmedString(AndGet(it, k))
  IN IF f("role") = <<>> \/ f("company") = <<>> THEN JNull
     ELSE JObj(<<Text("role", f("role")), Text("company", f("company")),
                 Text("date", f("date")), Text("location", f("location")),
                 Member("details", StrArr(splitLines(AndGet(it, "detailsLines"), DetailsLinesCap))),
                 Member("tags", StrArr(splitCsv(AndGet(it, "tagsCsv"), TagsCap)))>>)

\* POST /admin/experience
ExperienceError(body) == SectionError(body)
ExperienceItems(body) ==
  LET groups == normalizeArray(Get(body, "items"))
  IN KeepGroups([i \in 1..Len(groups) |-> ExperienceItem(groups[i])], ItemsCap)
ExperienceSite(site, body) ==
  MergeSection(site, "experience",
    <<Member("enabled", JBool(parseEnabled(Get(body, "enabled")))),
      Text("number", Field(body, "number")),
      Text("title", Field(body, "title")),
      Member("items", JArr(ExperienceItems(body)))>>)

\* One element of req.body.details and of req.body.socials.
ContactDetail(d) ==
  LET f(k) == asTrimmedString(AndGet(d, k))
  IN IF f("label") = <<>> \/ f("value") = <<>> THEN JNull
     ELSE JObj(<<Text("icon", f("icon")), Text("label", f("label")),
                 Text("value", f("value")), Text("href", f("href"))>>)
ContactSocial(s) ==
  LET f(k) == asTrimmedString(AndGet(s, k))
  IN IF f("href") = <<>> \/ f("label") = <<>> THEN JNull
     ELSE JObj(<<Text("href", f("href")), Text("label", f("label")),
                 Text("icon", f("icon"))>>)

\* POST /admin/contact
ContactError(body) ==
  IF SectionError(body) # NoError THEN SectionError(body)
  ELSE IF Len(Field(body, "description")) > ContactDescriptionMax THEN "Description too long"
  ELSE NoError
ContactSite(site, body) ==
  LET details == normalizeArray(Get(body, "details"))
      socials == normalizeArray(Get(body, "socials"))
      form == IF Truthy(Get(body, "form")) /\ Get(body, "form").type \in {"object", "array"}
              THEN Get(body, "form") ELSE JObj(<<>>)
  IN MergeSection(site, "contact",
       <<Member("enabled", JBool(parseEnabled(Get(body, "enabled")))),
         Text("number", Field(body, "number")),
         Text("title", Field(body, "title")),
         Text("description", Field(body, "description")),
         Member("details",
                JArr(KeepGroups([i \in 1..Len(details) |-> ContactDetail(details[i])],
                                ContactGroupsCap))),
         Member("socials",
                JArr(KeepGroups([i \in 1..Len(socials) |-> ContactSocial(socials[i])],
                                ContactGroupsCap))),
         Member("form",
                JObj(<<Text("nameLabel", Field(form, "nameLabel")),
                       Text("emailLabel", Field(form, "emailLabel")),
                       Text("subjectLabel", Field(form, "subjectLabel")),
                       Text("messageLabel", Field(form, "messageLabel")),
                       Text("buttonLabel", Field(form, "buttonLabel"))>>))>>)

\* POST /admin/site: req.body.siteJson is a string given by the JSON text it
\* spells (a syntax tree, garbage, or a text cut short); an absent or empty
\* field is the text '', which JSON.parse rejects.
JText(file) == [type |-> "text", text |-> file]
SiteJsonText(body) ==
  IF Get(body, "siteJson").type = "text" THEN Get(body, "siteJson").text
  ELSE File(TGarbage, TRUE)
SiteError_NoKeysCheck(body) ==
  IF ~JSONparse(SiteJsonText(body)).ok THEN "Invalid JSON"
  ELSE IF MissingSite(JSONparse(SiteJsonText(body)).value) THEN "Invalid JSON"
  ELSE NoError
SiteError(body) ==
  IF ~JSONparse(SiteJsonText(body)).ok THEN "Invalid JSON"
  ELSE IF MissingSite(JSONparse(SiteJsonText(body)).value) THEN "Invalid JSON"
  ELSE IF \E k \in {"meta", "hero", "about"} :
            ~Truthy(Get(JSONparse(SiteJsonText(body)).value, k))
    THEN "Missing required fields"
  ELSE NoError
SiteParsed(body) ==
  IF JSONparse(SiteJsonText(body)).ok THEN JSONparse(SiteJsonText(body)).value ELSE JUndefined


(***************************************************************************)
(* The admin requests.  Outside SpecAuth the session is logged in           *)
(* (requireAuth passes) and holds CsrfToken; one request runs at a time.   *)
(***************************************************************************)
CsrfToken == <<"t", "o", "k">>

\* req.session: the session SpecAuth keeps in rt, elsewhere a logged-in one.
Session ==
  IF rt.pc = "session" THEN [user |-> rt.user, csrfToken |-> rt.csrfToken]
  ELSE [user |-> JObj(<<Text("username", <<"a">>)>>), csrfToken |-> JStr(CsrfToken)]

\* requireAuth(req, res, next)
requireAuth_Open == TRUE
requireAuth == Truthy(Session.user)

\* assertCsrf(req)
assertCsrf(body) ==
  /\ Truthy(Session.csrfToken)
  /\ Truthy(Get(body, "_csrf"))
  /\ Session.csrfToken = Get(body, "_csrf")

AdminOp(route, body) ==
  [kind |-> "admin", route |-> route, body |-> body, current |-> JUndefined,
   error |-> NoError]

CurrentSite == readJson(fs[SITE_JSON_PATH], "none", JNull).value

\* POST /admin/nav
NavLogoMax == 80
NavLinksCap == 20
NavIdTailMax == 40
Letters ==
  {"a", "b", "c", "d", "e", "f", "g", "h", "i", "j", "k", "l", "m", "n", "o", "p", "q",
   "r", "s", "t", "u", "v", "w", "x", "y", "z", "A", "B", "C", "D", "E", "F", "G", "H",
   "I", "J", "K", "L", "M", "N", "O", "P", "Q", "R", "S", "T", "U", "V", "W", "X", "Y", "Z"}
Alnum == Letters \cup {"0", "1", "2", "3", "4", "5", "6", "7", "8", "9"}

\* /^[a-z0-9][a-z0-9-]{0,40}$/i.test(id)
IdPattern_Any(id) == TRUE
IdPattern(id) ==
  /\ Len(id) >= 1
  /\ Len(id) <= NavIdTailMax + 1
  /\ id[1] \in Alnum
  /\ \A i \in 2..Len(id) : id[i] \in Alnum \cup {"-"}

\* One element of req.body.links.
NavLink(l) ==
  LET id == asTrimmedString(AndGet(l, "id"))
      label == asTrimmedString(AndGet(l, "label"))
  IN IF id = <<>> \/ label = <<>> THEN JNull
     ELSE IF ~IdPattern(id) THEN JNull
     ELSE JObj(<<Text("id", id), Text("label", label)>>)
NavError(body) ==
  IF Field(body, "logoText") = <<>> THEN "Logo text is required"
  ELSE IF Len(Field(body, "logoText")) > NavLogoMax THEN "Logo text too long"
  ELSE NoError
NavSite(site, body) ==
  LET links == normalizeArray(Get(body, "links"))
  IN MergeSection(site, "nav",
       <<Text("logoText", Field(body, "logoText")),
         Member("links",
                JArr(KeepGroups([i \in 1..Len(links) |-> NavLink(links[i])], NavLinksCap)))>>)

\* POST /admin/section/:id: req.params.id is the member ":id" of the
\* request, req.body.sectionJson a string given by the JSON text it spells.
EDITABLE_SECTIONS ==
  {"meta", "nav", "hero", "about", "techstack", "projects", "casestudies", "experience",
   "certifications", "blog", "github", "contact", "footer"}
Param(name) == [type |-> "param", name |-> name]
SectionId(body) == IF Get(body, ":id").type = "param" THEN Get(body, ":id").name ELSE ""
SectionJsonText(body) ==
  IF Get(body, "sectionJson").type = "text" THEN Get(body, "sectionJson").text
  ELSE File(TGarbage, TRUE)
SectionJsonError(body) ==
  IF SectionId(body) \notin EDITABLE_SECTIONS THEN "Unknown section"
  ELSE IF ~JSONparse(SectionJsonText(body)).ok THEN "Invalid JSON"
  ELSE IF MissingSite(JSONparse(SectionJsonText(body)).value)
          \/ IsArray(JSONparse(SectionJsonText(body)).value)
    THEN "Section must be an object"
  ELSE NoError
SectionEnabled(parsed, body) ==
  SetKey(parsed, "enabled", JBool(parseEnabled(Get(body, "enabled"))))
SectionSite_Merge(site, body) ==
  LET parsed == JSONparse(SectionJsonText(body)).value
  IN IF SectionJsonError(body) # NoError THEN site
     ELSE MergeSection(site, SectionId(body),
                       IF SectionId(body) \notin {"meta", "nav"}
                       THEN SectionEnabled(parsed, body).members ELSE parsed.members)
SectionSite(site, body) ==
  LET parsed == JSONparse(SectionJsonText(body)).value
  IN IF SectionJsonError(body) # NoError THEN site
     ELSE SetKey(site, SectionId(body),
                 IF SectionId(body) \notin {"meta", "nav"}
                 THEN SectionEnabled(parsed, body) ELSE parsed)

\* The document a handler hands to writeJsonAtomic.
Written(route, body, site) ==
  CASE route = "meta" -> MetaSite(site, body)
    [] route = "hero" -> HeroSite(site, body)
    [] route = "projects" -> ProjectsSite(site, body)
    [] route = "experience" -> ExperienceSite(site, body)
    [] route = "contact" -> ContactSite(site, body)
    [] route = "site" -> SiteParsed(body)
    [] route = "nav" -> NavSite(site, body)
    [] route = "section" -> SectionSite(site, body)

\* return res.redirect('/admin?...&error=...')
Reject_SavesFirst(p, req, error) ==
  /\ op' = [op EXCEPT ![p] = [req EXCEPT !.error = error]]
  /\ Enqueue(p, SITE_JSON_PATH,
             IF req.route # "site" /\ MissingSite(CurrentSite) THEN JNull
             ELSE Written(req.route, req.body, CurrentSite))
  /\ UNCHANGED <<fs, outcome, completions, calls, rt>>
Reject(p, req, error) ==
  /\ op' = [op EXCEPT ![p] = [req EXCEPT !.error = error]]
  /\ pc' = [pc EXCEPT ![p] = "done"]
  /\ outcome' = [outcome EXCEPT ![p] = Outcome("rejected", FALSE, FALSE, 0, 0, enqCount)]
  /\ UNCHANGED <<fs, jobs, enqCount, completions, lastEnq, calls, rt>>

\* const site = await readJson(SITE_JSON_PATH, null) is issued.
StartRead(p, req) ==
  /\ op' = [op EXCEPT ![p] = req]
  /\ pc' = [pc EXCEPT ![p] = "read"]
  /\ UNCHANGED <<fs, jobs, outcome, enqCount, completions, lastEnq, calls, rt>>

\* await writeJsonAtomic(SITE_JSON_PATH, site) is issued.
Save(p, req, site) ==
  /\ op' = [op EXCEPT ![p] = req]
  /\ Enqueue(p, SITE_JSON_PATH, site)
  /\ UNCHANGED <<fs, outcome, completions, calls, rt>>

\* A handler that checks the form before it reads the document.
CheckThenRead(p, route, body, error) ==
  IF ~assertCsrf(body) THEN Reject(p, AdminOp(route, body), "Invalid session")
  ELSE IF error # NoError THEN Reject(p, AdminOp(route, body), error)
  ELSE StartRead(p, AdminOp(route, body))

PostMeta(p, body) ==
  /\ pc[p] = "idle"
  /\ CheckThenRead(p, "meta", body, MetaError(body))
PostProjects(p, body) ==
  /\ pc[p] = "idle"
  /\ CheckThenRead(p, "projects", body, ProjectsError(body))
PostExperience(p, body) ==
  /\ pc[p] = "idle"
  /\ CheckThenRead(p, "experience", body, ExperienceError(body))
PostContact(p, body) ==
  /\ pc[p] = "idle"
  /\ CheckThenRead(p, "contact", body, ContactError(body))
PostNav(p, body) ==
  /\ pc[p] = "idle"
  /\ CheckThenRead(p, "nav", body, NavError(body))
PostSection(p, body) ==
  /\ pc[p] = "idle"
  /\ CheckThenRead(p, "section", body, SectionJsonError(body))

\* POST /admin/hero reads the document first and checks the form after.
PostHero(p, body) ==
  /\ pc[p] = "idle"
  /\ IF ~assertCsrf(body) THEN Reject(p, AdminOp("hero", body), "Invalid session")
     ELSE StartRead(p, AdminOp("hero", body))

\* POST /admin/site reads nothing.
PostSite(p, body) ==
  /\ pc[p] = "idle"
  /\ IF ~assertCsrf(body) THEN Reject(p, AdminOp("site", body), "Invalid session")
     ELSE IF SiteError(body) # NoError THEN Reject(p, AdminOp("site", body), SiteError(body))
     ELSE Save(p, AdminOp("site", body), SiteParsed(body))

\* readJson returns in a section handler.
AdminRead(p) ==
  /\ pc[p] = "read"
  /\ op[p].kind = "admin"
  /\ IF MissingSite(CurrentSite) THEN Reject(p, op[p], "Missing site.json")
     ELSE IF op[p].route = "hero" /\ HeroError(op[p].body) # NoError
       THEN Reject(p, op[p], HeroError(op[p].body))
     ELSE Save(p, [op[p] EXCEPT !.current = CurrentSite],
               Written(op[p].route, op[p].body, CurrentSite))


(***************************************************************************)
(* The forms the model submits: for each text field the values around its  *)
(* limit and around emptiness, and for each repeated group the lists of    *)
(* up to MaxGroups groups with and without the identifying field, and a    *)
(* list longer than the cap.                                               *)
(***************************************************************************)
MaxGroups == 2

\* The largest length limit of any text field of the program (the message of
\* POST /api/contact).
MaxTextCap == 4000

Digits == <<"0", "1", "2", "3", "4", "5", "6", "7", "8", "9">>
Numbered(c, i) == <<c, Digits[(i \div 10) + 1], Digits[(i % 10) + 1]>>

TextCandidates(cap) ==
  {JUndefined, JStr(<<>>), JStr(<<" ", "\t">>), JStr(<<" ", "a", " ", "b", "\n">>),
   JStr(Rep("x", cap)), JStr(Rep("x", cap + 1)), JStr(<<" ">> \o Rep("x", cap))}

WithCsrf(body) == SetKey(body, "_csrf", JStr(CsrfToken))
Requests(base, bodies) == {WithCsrf(b) : b \in bodies} \cup {base}

\* Every list of at most MaxGroups groups of the given kinds, a lone group
\* that is no array, and no field at all.
GroupLists(kinds) ==
  {JArr(l) : l \in UNION {[1..n -> kinds] : n \in 0..MaxGroups}}
    \cup kinds \cup {JUndefined}

\* A list with more valid groups than cap, and invalid ones among the first.
LongList(cap, valid(_), invalid) ==
  JArr([i \in 1..(cap + MaxGroups + 3) |->
          IF i \in {2, 5} THEN invalid ELSE valid(i)])

\* The documents site.json holds when a request arrives.
AdminSite ==
  JObj(<<
    Member("meta", JObj(<<Text("title", <<"O", "l", "d">>), Text("description", <<"d">>),
                          Text("ogImage", <<>>), Text("themeColor", <<"k">>)>>)),
    Member("hero", JObj(<<Member("enabled", JBool(TRUE)), Text("firstName", <<"A">>),
                          Text("lastName", <<"B">>), Text("avatar", <<"p">>),
                          Member("ctas", JArr(<<JObj(<<Text("label", <<"G", "o">>),
                                                       Text("href", <<"#", "x">>),
                                                       Text("style", <<"g">>)>>)>>))>>)),
    Member("about", JObj(<<Member("enabled", JBool(TRUE))>>)),
    Member("projects", JObj(<<Text("title", <<"P">>), Text("layout", <<"g">>),
                              Member("cards", JArr(<<JObj(<<Text("frontTitle", <<"o">>)>>)>>))>>)),
    Member("experience", JObj(<<Text("title", <<"E">>), Text("note", <<"n">>),
                                Member("items", JArr(<<>>))>>)),
    Member("contact", JObj(<<Text("title", <<"C">>), Text("mapUrl", <<"m">>),
                             Member("form", JObj(<<Text("nameLabel", <<"N">>),
                                                   Text("hint", <<"h">>)>>))>>))>>)
AdminSiteBare ==
  JObj(<<Member("meta", JObj(<<Text("title", <<"O", "l", "d">>)>>)),
         Member("about", JObj(<<>>))>>)
AdminStartFiles ==
  {OnDisk(SITE_JSON_PATH, AdminSite), OnDisk(SITE_JSON_PATH, AdminSiteBare),
   Absent, File(TGarbage, TRUE)}

\* POST /admin/meta
MetaBodies ==
  {JObj(<<Member("title", t), Member("description", d), Member("ogImage", o)>>) :
     t \in TextCandidates(MetaTitleMax), d \in TextCandidates(MetaDescriptionMax),
     o \in TextCandidates(OgImageMax)}
MetaRequests ==
  Requests(JObj(<<Text("title", <<"T">>)>>), MetaBodies)

\* POST /admin/hero
HeroBase ==
  JObj(<<Text("enabled", <<"1">>), Text("greeting", <<"H", "i">>),
         Text("firstName", <<" ", "A", "d", "a", " ">>), Text("lastName", <<"L">>),
         Text("description", <<"d">>), Text("scrollText", <<"s">>),
         Text("titles", <<" ", "D", "e", "v", " ", "\n", "\n", "O", "p", "s">>),
         Text("cta1Label", <<"G", "o">>), Text("cta1Href", <<"#", "a">>),
         Text("cta2Label", <<>>), Text("cta2Href", <<>>)>>)
HeroLimits ==
  {<<"greeting", GreetingMax>>, <<"firstName", NameMax>>, <<"lastName", NameMax>>,
   <<"description", HeroDescriptionMax>>, <<"scrollText", ScrollTextMax>>,
   <<"cta1Label", CtaLabelMax>>, <<"cta2Label", CtaLabelMax>>,
   <<"cta1Href", CtaHrefMax>>, <<"cta2Href", CtaHrefMax>>}
HeroBodies ==
  UNION {{SetKey(HeroBase, f[1], v) : v \in TextCandidates(f[2])} : f \in HeroLimits}
    \cup {SetKey(HeroBase, "titles", JStr(Join(Rep(<<"t">>, HeroTitlesCap + 1), <<"\n">>))),
          SetKey(HeroBase, "titles", JStr(Rep("x", MaxTextCap + 1))),
          SetKey(HeroBase, "enabled", StrArr(<<<<"0">>, <<"1">>>>)),
          SetKey(HeroBase, "enabled", JUndefined)}
HeroRequests == Requests(HeroBase, HeroBodies)

\* POST /admin/projects
CardA ==
  JObj(<<Text("category", <<" ", "w", " ">>), Text("frontTitle", <<" ", "A", " ">>),
         Text("frontDesc", <<"d">>), Text("techCsv", <<"x", ",", " ", "y", ",", ",", "z">>),
         Text("linkLabel", <<"L">>), Text("linkHref", <<"h">>)>>)
CardB ==
  JObj(<<Text("frontTitle", <<"B">>), Text("linkType", <<"s", "t", "a", "t", "u", "s">>),
         Text("linkIcon", <<"i">>)>>)
CardNoTitle == JObj(<<Text("category", <<"c">>), Text("frontDesc", <<"d">>)>>)
CardBlankTitle == JObj(<<Text("frontTitle", <<" ", "\n">>), Text("backTitle", <<"b">>)>>)
CardNumbered(i) == JObj(<<Text("frontTitle", Numbered("c", i))>>)
CardLong == JObj(<<Text("frontTitle", Rep("x", MaxTextCap + 1))>>)
CardLists ==
  GroupLists({CardA, CardB, CardNoTitle, CardBlankTitle})
    \cup {LongList(CardsCap, CardNumbered, CardNoTitle),
          JArr(<<JStr(<<"s">>), CardA, JNull>>), JArr(<<CardLong>>)}
ProjectsBase ==
  JObj(<<Text("enabled", <<"1">>), Text("number", <<"0", "3">>), Text("title", <<"W">>),
         Text("filtersLines", <<"A", "l", "l", "|", "*", "\n", "x", "\n", "W", " ", "|", "w", "|", "v">>),
         Member("cards", JArr(<<CardA, CardNoTitle, CardB>>))>>)
ProjectsBodies ==
  {SetKey(SetKey(ProjectsBase, "number", n), "title", t) :
     n \in TextCandidates(NumberMax), t \in TextCandidates(SectionTitleMax)}
    \cup {SetKey(ProjectsBase, "cards", c) : c \in CardLists}
    \cup {SetKey(ProjectsBase, "filtersLines", JUndefined)}
ProjectsRequests == Requests(ProjectsBase, ProjectsBodies)

\* POST /admin/experience
ItemA ==
  JObj(<<Text("role", <<" ", "R">>), Text("company", <<"C", " ">>), Text("date", <<"2">>),
         Text("detailsLines", <<"a", "\n", "\n", "b", " ">>), Text("tagsCsv", <<"t", ",", "u">>)>>)
ItemB == JObj(<<Text("role", <<"S">>), Text("company", <<"D">>)>>)
ItemNoRole == JObj(<<Text("company", <<"C">>), Text("date", <<"2">>)>>)
ItemBlankCompany == JObj(<<Text("role", <<"R">>), Text("company", <<" ">>)>>)
ItemNumbered(i) == JObj(<<Text("role", Numbered("r", i)), Text("company", <<"C">>)>>)
ItemLists ==
  GroupLists({ItemA, ItemB, ItemNoRole, ItemBlankCompany})
    \cup {LongList(ItemsCap, ItemNumbered, ItemNoRole)}
ExperienceBase ==
  JObj(<<Text("enabled", <<"1">>), Text("number", <<"0", "4">>), Text("title", <<"X">>),
         Member("items", JArr(<<ItemA, ItemNoRole, ItemB>>))>>)
ExperienceBodies ==
  {SetKey(ExperienceBase, "title", t) : t \in TextCandidates(SectionTitleMax)}
    \cup {SetKey(ExperienceBase, "number", n) : n \in TextCandidates(NumberMax)}
    \cup {SetKey(ExperienceBase, "items", l) : l \in ItemLists}
ExperienceRequests == Requests(ExperienceBase, ExperienceBodies)

\* POST /admin/contact
DetailA == JObj(<<Text("icon", <<"i">>), Text("label", <<"M">>), Text("value", <<" ", "v">>)>>)
DetailNoValue == JObj(<<Text("label", <<"M">>)>>)
DetailNumbered(i) == JObj(<<Text("label", Numbered("d", i)), Text("value", <<"v">>)>>)
SocialA == JObj(<<Text("href", <<"h">>), Text("label", <<"G">>)>>)
SocialNoHref == JObj(<<Text("label", <<"G">>), Text("icon", <<"i">>)>>)
ContactBase ==
  JObj(<<Text("number", <<"0", "9">>), Text("title", <<"K">>), Text("description", <<"d">>),
         Member("details", JArr(<<DetailNoValue, DetailA>>)),
         Member("socials", JArr(<<SocialA, SocialNoHref>>)),
         Member("form", JObj(<<Text("nameLabel", <<" ", "N", "m">>),
                               Text("buttonLabel", <<"S">>)>>))>>)
ContactBodies ==
  {SetKey(ContactBase, "title", t) : t \in TextCandidates(SectionTitleMax)}
    \cup {SetKey(ContactBase, "number", n) : n \in TextCandidates(NumberMax)}
    \cup {SetKey(ContactBase, "description", d) : d \in TextCandidates(ContactDescriptionMax)}
    \cup {SetKey(ContactBase, "details", l) : l \in GroupLists({DetailA, DetailNoValue})}
    \cup {SetKey(ContactBase, "socials", l) : l \in GroupLists({SocialA, SocialNoHref})}
    \cup {SetKey(ContactBase, "details", LongList(ContactGroupsCap, DetailNumbered, DetailNoValue)),
          SetKey(ContactBase, "form", JUndefined),
          SetKey(ContactBase, "form", JStr(<<"f">>)),
          SetKey(ContactBase, "form",
                 JObj(<<Text("messageLabel", Rep("x", MaxTextCap + 1))>>))}
ContactRequests == Requests(ContactBase, ContactBodies)

\* POST /admin/site
NewSite(meta, hero, about) ==
  JObj(<<Member("meta", meta), Member("hero", hero), Member("about", about),
         Member("blog", JObj(<<Text("title", <<"N">>)>>))>>)
SomeSection == JObj(<<Text("title", <<"N">>)>>)
SiteTexts ==
  {File(Raw(NewSite(m, h, a)), TRUE) :
     m \in {SomeSection, JStr(<<>>), JNull}, h \in {SomeSection, JBool(FALSE), JStr(<<"h">>)},
     a \in {SomeSection, JNum(0), JUndefined}}
    \cup {File(Raw(v), TRUE) :
            v \in {JArr(<<SomeSection>>), JStr(<<"s">>), JNull, JNum(1), JObj(<<>>),
                   JObj(<<Member("meta", SomeSection), Member("hero", SomeSection)>>)}}
    \cup {File(TGarbage, TRUE), File(Raw(NewSite(SomeSection, SomeSection, SomeSection)), FALSE)}
SiteBodies ==
  {JObj(<<Member("siteJson", JText(t))>>) : t \in SiteTexts} \cup {JObj(<<>>)}
SiteRequests ==
  Requests(JObj(<<Member("siteJson",
                         JText(File(Raw(NewSite(SomeSection, SomeSection, SomeSection)), TRUE)))>>),
           SiteBodies)

\* POST /admin/nav
LinkHome == JObj(<<Text("id", <<" ", "h", "-", "1", " ">>), Text("label", <<"H", "o">>)>>)
LinkSpaced == JObj(<<Text("id", <<"a", " ", "b">>), Text("label", <<"S">>)>>)
LinkDashFirst == JObj(<<Text("id", <<"-", "a">>), Text("label", <<"D">>)>>)
LinkLongest == JObj(<<Text("id", Rep("x", NavIdTailMax + 1)), Text("label", <<"L">>)>>)
LinkTooLong == JObj(<<Text("id", Rep("x", NavIdTailMax + 2)), Text("label", <<"L">>)>>)
LinkNoLabel == JObj(<<Text("id", <<"n">>), Text("label", <<" ">>)>>)
LinkNumbered(i) == JObj(<<Text("id", Numbered("s", i)), Text("label", Numbered("L", i))>>)
NavBase == JObj(<<Text("logoText", <<"L", "g">>)>>)
NavBodies ==
  {SetKey(NavBase, "logoText", t) : t \in TextCandidates(NavLogoMax)}
    \cup {SetKey(NavBase, "links", l) :
            l \in GroupLists({LinkHome, LinkSpaced, LinkDashFirst, LinkLongest, LinkTooLong,
                              LinkNoLabel})}
    \cup {SetKey(NavBase, "links", LongList(NavLinksCap, LinkNumbered, LinkSpaced))}
NavRequests == Requests(NavBase, NavBodies)

\* POST /admin/section/:id
SectionTexts ==
  {File(Raw(v), TRUE) :
     v \in {SomeSection, JObj(<<Member("enabled", JStr(<<"n", "o">>)), Text("title", <<"N">>)>>),
            JObj(<<>>), JArr(<<SomeSection>>), JStr(<<"s">>), JNull, JNum(1)}}
    \cup {File(TGarbage, TRUE), File(Raw(SomeSection), FALSE)}
SectionBodies ==
  {JObj(<<Member(":id", Param(id)), Member("sectionJson", JText(t)), Member("enabled", e)>>) :
     id \in EDITABLE_SECTIONS \cup {"site", "Meta", ""}, t \in SectionTexts,
     e \in {JUndefined, JStr(<<"1">>), JArr(<<JStr(<<"0">>), JStr(<<"1">>)>>)}}
    \cup {JObj(<<Member(":id", Param("blog"))>>)}
SectionRequests ==
  Requests(JObj(<<Member(":id", Param("blog")), Member("sectionJson", JText(File(Raw(SomeSection), TRUE)))>>),
           SectionBodies)

(***************************************************************************)
(* One admin request against a document on disk.                           *)
(***************************************************************************)
InitAdmin ==
  /\ InitCommon
  /\ \E site \in AdminStartFiles :
       fs = [f \in Paths |->
               IF f = SITE_JSON_PATH THEN site
               ELSE IF f = SUBMISSIONS_JSON_PATH THEN OnDisk(f, InitialLog)
               ELSE Absent]
  /\ rt = RtOff

NextAdmin ==
  \/ \E body \in MetaRequests : PostMeta(1, body)
  \/ \E body \in HeroRequests : PostHero(1, body)
  \/ \E body \in ProjectsRequests : PostProjects(1, body)
  \/ \E body \in ExperienceRequests : PostExperience(1, body)
  \/ \E body \in ContactRequests : PostContact(1, body)
  \/ \E body \in SiteRequests : PostSite(1, body)
  \/ \E body \in NavRequests : PostNav(1, body)
  \/ \E body \in SectionRequests : PostSection(1, body)
  \/ AdminRead(1)
  \/ ReadError(1)
  \/ \E k \in 1..Len(jobs) : JobStart(k)
  \/ \E k \in 1..Len(jobs) : MkdirOk(k)
  \/ \E k \in 1..Len(jobs) : MkdirFail(k)
  \/ \E k \in 1..Len(jobs) : WriteFileOpen(k)
  \/ \E k \in 1..Len(jobs) : WriteFileOk(k)
  \/ \E k \in 1..Len(jobs) : WriteFileFail(k)
  \/ \E k \in 1..Len(jobs) : RenameOk(k)
  \/ \E k \in 1..Len(jobs) : RenameFail(k)

SpecAdmin == InitAdmin /\ [][NextAdmin]_vars


(***************************************************************************)
(* Properties of the admin section handlers (SpecAdmin).                   *)
(***************************************************************************)
IsAdmin(o) == o.kind = "admin"
ErrorOf(o) == IF IsAdmin(o) THEN o.error ELSE NoError

\* The request was turned down for its input: a required field missing, a
\* field over its limit, or JSON that does not parse or lacks a section.
ValidationRejected(o) ==
  ErrorOf(o) \notin {NoError, "Invalid session", "Missing site.json"}

\* The request was accepted and its write has been enqueued.
Accepted(o) == IF IsAdmin(o) THEN o.error = NoError /\ enqCount > 0 ELSE FALSE

\* C15: a section update rejected by validation enqueues no write: no write
\* is ever queued for it, the handler has returned, and the files are what
\* they were before the request (nothing changes them while no write is
\* queued).
NoWriteWhenRejected ==
  /\ ValidationRejected(op[1]') =>
       /\ enqCount' = 0
       /\ jobs' = <<>>
       /\ ~outcome'[1].enqueued
       /\ pc'[1] = "done"
  /\ enqCount' = 0 => fs' = fs
C15_RejectedUpdateWritesNothing == [][NoWriteWhenRejected]_vars
C15_Witness ==
  /\ pc[1] = "done"
  /\ ErrorOf(op[1]) = "First name is required"
  /\ fs[SITE_JSON_PATH] = OnDisk(SITE_JSON_PATH, AdminSite)


\* The lengths of the strings held anywhere in a value.
RECURSIVE TextLens(_)
TextLens(v) ==
  CASE v.type = "string" -> {Len(v.s)}
    [] v.type = "array" -> UNION {TextLens(v.items[i]) : i \in 1..Len(v.items)}
    [] v.type = "object" -> UNION {TextLens(v.members[i].value) : i \in 1..Len(v.members)}
    [] OTHER -> {}

\* The section an accepted section update has handed to writeJsonAtomic.
SavedSection == Get(lastEnq[SITE_JSON_PATH], op[1].route)
SectionForms == {"meta", "hero", "projects", "experience", "contact", "nav"}
SectionSaved == IF Accepted(op[1]) THEN op[1].route \in SectionForms ELSE FALSE

\* C16: every free-text field of a section update has a maximum length: no
\* accepted update stores a text longer than the largest limit the program
\* has, text inside repeated groups included.
C16_EveryTextFieldCapped ==
  SectionSaved => \A n \in TextLens(SavedSection) : n <= MaxTextCap


\* The text a form gives for a field ('' when it gives none), the fields a
\* handler requires, and the text fields it limits with their limits.
FormText(o, k) == IF Get(o.body, k).type = "string" THEN Get(o.body, k).s ELSE <<>>
RequiredFields(route) ==
  CASE route = "meta" -> {"title"}
    [] route = "hero" -> {"firstName", "lastName"}
    [] route \in {"projects", "experience", "contact"} -> {"title"}
    [] route = "nav" -> {"logoText"}
    [] OTHER -> {}
LimitedFields(route) ==
  CASE route = "meta" ->
         {<<"title", MetaTitleMax>>, <<"description", MetaDescriptionMax>>,
          <<"ogImage", OgImageMax>>}
    [] route = "hero" -> HeroLimits
    [] route \in {"projects", "experience"} ->
         {<<"number", NumberMax>>, <<"title", SectionTitleMax>>}
    [] route = "contact" ->
         {<<"number", NumberMax>>, <<"title", SectionTitleMax>>,
          <<"description", ContactDescriptionMax>>}
    [] route = "nav" -> {<<"logoText", NavLogoMax>>}
    [] OTHER -> {}
StoredFields(route) ==
  IF route = "hero"
  THEN {"greeting", "firstName", "lastName", "description", "scrollText"}
  ELSE {f[1] : f \in LimitedFields(route)}
BlankRequired(o) ==
  \E k \in RequiredFields(o.route) : Trim(FormText(o, k)) = <<>>
OverLimit(o) ==
  \E f \in LimitedFields(o.route) : Len(Trim(FormText(o, f[1]))) > f[2]

\* C17: string fields are trimmed before use; a form whose required field
\* is empty after trimming is never saved and is answered with an error
\* (a validation error when the session and the document are in order);
\* a form is rejected by validation only for a required field empty after
\* trimming or a field over its limit after trimming, so an optional field
\* that is empty after trimming is accepted; and what is saved is the
\* trimmed text.
C17_TrimmedAndRequired ==
  (IF IsAdmin(op[1]) THEN op[1].route \in SectionForms ELSE FALSE) =>
    /\ BlankRequired(op[1]) =>
         /\ ~Accepted(op[1])
         /\ pc[1] = "done" /\ outcome[1].status # "error" => ErrorOf(op[1]) # NoError
         /\ pc[1] = "done" /\ outcome[1].status # "error" /\ assertCsrf(op[1].body)
              /\ ~MissingSite(CurrentSite) => ValidationRejected(op[1])
    /\ ValidationRejected(op[1]) => BlankRequired(op[1]) \/ OverLimit(op[1])
    /\ Accepted(op[1]) =>
         \A k \in StoredFields(op[1].route) :
           Get(SavedSection, k) = JStr(Trim(FormText(op[1], k)))
C17_Witness ==
  /\ IsAdmin(op[1])
  /\ pc[1] = "done"
  /\ outcome[1].status = "ok"
  /\ op[1].route = "meta"
  /\ Get(op[1].body, "title") = JStr(<<" ", "a", " ", "b", "\n">>)
  /\ Get(op[1].body, "description") = JStr(<<" ", "\t">>)
  /\ Get(Get(CurrentSite, "meta"), "title") = JStr(<<"a", " ", "b">>)
  /\ Get(Get(CurrentSite, "meta"), "description") = JStr(<<>>)


\* The repeated groups of a section: the form field holding them, the
\* fields that identify a group, and the cap of the section.
GroupFields(route) ==
  CASE route = "projects" -> {<<"cards", {"frontTitle"}, CardsCap>>}
    [] route = "experience" -> {<<"items", {"role", "company"}, ItemsCap>>}
    [] route = "contact" ->
         {<<"details", {"label", "value"}, ContactGroupsCap>>,
          <<"socials", {"href", "label"}, ContactGroupsCap>>}
    [] OTHER -> {}
GroupText(g, k) ==
  IF g.type = "object" THEN (IF Get(g, k).type = "string" THEN Trim(Get(g, k).s) ELSE <<>>)
  ELSE <<>>
ValidGroups(groups, ids) ==
  {i \in 1..Len(groups) : \A k \in ids : GroupText(groups[i], k) # <<>>}
NthOf(S, j) == CHOOSE i \in S : Cardinality({v \in S : v < i}) = j - 1
FewerOf(a, b) == IF a < b THEN a ELSE b

\* C18: a group without its identifying field is dropped without failing
\* the update: a form whose own fields are in order is not rejected
\* whatever its groups are, and what is saved is, in their original order,
\* the valid groups up to the cap, the cap counting valid groups only.
GroupsKept(o, f) ==
  LET groups == normalizeArray(Get(o.body, f[1]))
      valid == ValidGroups(groups, f[2])
      saved == Get(SavedSection, f[1]).items
  IN /\ Len(saved) = FewerOf(Cardinality(valid), f[3])
     /\ \A j \in 1..Len(saved) : \A k \in f[2] :
          Get(saved[j], k) = JStr(GroupText(groups[NthOf(valid, j)], k))
C18_InvalidGroupsDropped ==
  IsAdmin(op[1]) =>
    /\ ValidationRejected(op[1]) /\ GroupFields(op[1].route) # {} =>
         BlankRequired(op[1]) \/ OverLimit(op[1])
    /\ Accepted(op[1]) => \A f \in GroupFields(op[1].route) : GroupsKept(op[1], f)
C18_Witness ==
  /\ IsAdmin(op[1])
  /\ pc[1] = "done"
  /\ outcome[1].status = "ok"
  /\ op[1].route = "projects"
  /\ Get(op[1].body, "cards") = LongList(CardsCap, CardNumbered, CardNoTitle)
  /\ Len(Get(Get(CurrentSite, "projects"), "cards").items) = CardsCap


\* The keys of an object and the keys a section handler assigns.
KeysOf(v) ==
  IF v.type = "object" THEN {v.members[i].key : i \in 1..Len(v.members)} ELSE {}
AssignedKeys(route) ==
  CASE route = "meta" -> {"title", "description", "ogImage"}
    [] route = "hero" ->
         {"enabled", "greeting", "firstName", "lastName", "description", "scrollText",
          "titles", "ctas"}
    [] route = "projects" -> {"enabled", "number", "title", "filters", "cards"}
    [] route = "experience" -> {"enabled", "number", "title", "items"}
    [] route = "contact" ->
         {"enabled", "number", "title", "description", "details", "socials", "form"}
    [] route = "nav" -> {"logoText", "links"}

\* The request was accepted and its write has landed.
SectionUpdated ==
  IF SectionSaved THEN pc[1] = "done" /\ outcome[1].status = "ok" ELSE FALSE

\* C19: a successful section update (no concurrent writer) merges over the
\* previous section: the document on disk has the keys of the document
\* read plus the section, every other section is as it was read, and every
\* key of the previous section that the handler does not assign has kept
\* its value.
C19_ShallowMerge ==
  SectionUpdated =>
    /\ KeysOf(CurrentSite) = KeysOf(op[1].current) \cup {op[1].route}
    /\ \A k \in KeysOf(op[1].current) \ {op[1].route} :
         Get(CurrentSite, k) = Get(op[1].current, k)
    /\ KeysOf(Get(CurrentSite, op[1].route))
         = KeysOf(Get(op[1].current, op[1].route)) \cup AssignedKeys(op[1].route)
    /\ \A k \in KeysOf(Get(op[1].current, op[1].route)) \ AssignedKeys(op[1].route) :
         Get(Get(CurrentSite, op[1].route), k) = Get(Get(op[1].current, op[1].route), k)
C19_Witness ==
  /\ SectionUpdated
  /\ op[1].route = "contact"
  /\ Get(Get(CurrentSite, "contact"), "mapUrl") = JStr(<<"m">>)
  /\ Get(Get(CurrentSite, "contact"), "title") = JStr(<<"K">>)
  /\ Get(Get(op[1].current, "contact"), "title") = JStr(<<"C">>)


\* The caller's text is JSON for an object whose meta, hero and about are
\* truthy.
AcceptableSiteJson(body) ==
  LET raw == SiteJsonText(body)
  IN IF raw.complete /\ raw.text.t = "t_object"
     THEN \A k \in {"meta", "hero", "about"} : Truthy(Get(FromText(raw.text), k))
     ELSE FALSE
SiteRequest == IF IsAdmin(op[1]) THEN op[1].route = "site" /\ assertCsrf(op[1].body) ELSE FALSE

\* C20: POST /admin/site hands the caller's JSON to the writer as the whole
\* document if and only if it parses, is an object and has truthy meta,
\* hero and about; otherwise the request is rejected and nothing is
\* written.  Once the write has landed the file is the caller's JSON and
\* nothing else: its keys are the keys of that JSON.
C20_VerbatimReplace ==
  SiteRequest =>
    /\ Accepted(op[1]) <=> AcceptableSiteJson(op[1].body)
    /\ ~AcceptableSiteJson(op[1].body) =>
         /\ ValidationRejected(op[1])
         /\ enqCount = 0 /\ jobs = <<>> /\ fs[SiteTmp] = Absent
    /\ Accepted(op[1]) => lastEnq[SITE_JSON_PATH] = FromText(SiteJsonText(op[1].body).text)
    /\ Accepted(op[1]) /\ pc[1] = "done" /\ outcome[1].status = "ok" =>
         /\ fs[SITE_JSON_PATH] = File(SiteJsonText(op[1].body).text, TRUE)
         /\ KeysOf(CurrentSite) = KeysOf(FromText(SiteJsonText(op[1].body).text))
C20_Witness ==
  /\ SiteRequest
  /\ pc[1] = "done"
  /\ outcome[1].status = "ok"
  /\ KeysOf(CurrentSite) = {"meta", "hero", "about", "blog"}
  /\ Get(CurrentSite, "hero") = JStr(<<"h">>)


(***************************************************************************)
(* The line parsers applied to one input: splitLines, parseIconLabelLines  *)
(* and parseIconTextPair on every text of at most MaxChars characters over *)
(* a letter, a second letter, a blank, a newline and '|', and on the       *)
(* examples of the documentation.                                          *)
(***************************************************************************)
MaxChars == 4

\* line.split('|').map(trim): icon is the first part, the rest is joined
\* with ' | ' and trimmed; null when both are empty.
IconAndRest(line, restKey) ==
  LET parts == [i \in 1..Len(Split(line, "|")) |-> Trim(Split(line, "|")[i])]
      icon == parts[1]
      rest == Trim(Join(Tail(parts), <<" ", "|", " ">>))
  IN IF rest = <<>> /\ icon = <<>> THEN JNull
     ELSE JObj(<<Text("icon", icon), Text(restKey, rest)>>)

\* parseIconTextPair(v)
parseIconTextPair(v) ==
  IF asTrimmedString(v) = <<>> THEN JNull ELSE IconAndRest(asTrimmedString(v), "text")

\* parseIconLabelLines(v, max)
parseIconLabelLines(v, max) ==
  SelectSeq([i \in 1..Len(splitLines(v, max)) |-> IconAndRest(splitLines(v, max)[i], "label")],
            Truthy)

ParseChars == {"a", "b", " ", "\n", "|"}
LinesExample == <<"a", "\n", "\n", "b", " ", "\n", " ", "c">>
IconExample ==
  <<"f", "a", "-", "s", "t", "a", "r", " ", "|", " ", "G", "o", "l", "d", " ", "T", "i", "e", "r">>
PlainExample == <<"j", "u", "s", "t", "t", "e", "x", "t">>
ParseTexts ==
  {JStr(s) : s \in UNION {[1..n -> ParseChars] : n \in 0..MaxChars}}
    \cup {JStr(LinesExample), JStr(IconExample), JStr(PlainExample), JUndefined, JNull}
ParseCaps == {1, 2, 10}

InitParse ==
  /\ InitCommon
  /\ fs = [f \in Paths |->
             IF f = SITE_JSON_PATH THEN OnDisk(f, InitialSite)
             ELSE IF f = SUBMISSIONS_JSON_PATH THEN OnDisk(f, InitialLog)
             ELSE Absent]
  /\ \E v \in ParseTexts, max \in ParseCaps :
       rt = [pc |-> "input", v |-> v, max |-> max, out |-> <<>>]

Parsed(fn, out) ==
  /\ rt.pc = "input"
  /\ rt' = [rt EXCEPT !.pc = fn, !.out = out]
  /\ UNCHANGED <<fs, jobs, pc, op, outcome, enqCount, completions, lastEnq, calls>>

ParseLines ==
  /\ rt.pc = "input"
  /\ Parsed("splitLines", splitLines(rt.v, rt.max))
ParseIconLabelLines ==
  /\ rt.pc = "input"
  /\ Parsed("parseIconLabelLines", parseIconLabelLines(rt.v, rt.max))
ParseIconTextPair ==
  /\ rt.pc = "input"
  /\ Parsed("parseIconTextPair", <<parseIconTextPair(rt.v)>>)

NextParse ==
  \/ ParseLines
  \/ ParseIconLabelLines
  \/ ParseIconTextPair

SpecParse == InitParse /\ [][NextParse]_vars

\* The text given to a parser ('' for null and undefined), the places where
\* its lines start, and the trimmed line starting at a place.
ParseInput == IF rt.v.type = "string" THEN rt.v.s ELSE <<>>
LineStarts(s) ==
  {i \in 1..(Len(s) + 1) : IF i = 1 THEN TRUE ELSE s[i - 1] = "\n"}
LineAt(s, i) ==
  LET ends == {j \in i..Len(s) : s[j] = "\n"}
  IN Trim(SubSeq(s, i, IF ends = {} THEN Len(s) ELSE Least(ends) - 1))
FullLines(s) == {i \in LineStarts(s) : LineAt(s, i) # <<>>}

\* C21: splitLines splits on newlines, trims each line, drops the empty
\* ones, keeps the order and returns the first N non-empty lines, N the
\* cap; "a\n\nb \n c" with cap 10 gives ["a", "b", "c"].
C21_SplitLines ==
  rt.pc = "splitLines" =>
    /\ Len(rt.out) = FewerOf(Cardinality(FullLines(ParseInput)), rt.max)
    /\ \A j \in 1..Len(rt.out) :
         rt.out[j] = LineAt(ParseInput, NthOf(FullLines(ParseInput), j))
    /\ ParseInput = LinesExample /\ rt.max = 10 => rt.out = <<<<"a">>, <<"b">>, <<"c">>>>
C21_Witness ==
  /\ rt.pc = "splitLines"
  /\ rt.v = JStr(LinesExample)
  /\ rt.max = 2
  /\ rt.out = <<<<"a">>, <<"b">>>>


\* A line split on its first '|': the trimmed text before it and the
\* trimmed remainder, as written; the whole line and '' without a '|'.
FirstBar(line) ==
  LET bars == {i \in 1..Len(line) : line[i] = "|"}
  IN IF bars = {} THEN Len(line) + 1 ELSE Least(bars)
IconLabelAsWritten(line) ==
  LET icon == Trim(SubSeq(line, 1, FirstBar(line) - 1))
      label == Trim(SubSeq(line, FirstBar(line) + 1, Len(line)))
  IN IF icon = <<>> /\ label = <<>> THEN JNull
     ELSE JObj(<<Text("icon", icon), Text("label", label)>>)

\* C22: parseIconLabelLines splits each line on the first '|' into a
\* trimmed icon and a label that is the trimmed remainder of the line, kept
\* as written even when it contains '|'; a line without '|' gives the line
\* as icon and an empty label; a line with neither is dropped.
C22_IconLabelLines ==
  rt.pc = "parseIconLabelLines" =>
    LET n == FewerOf(Cardinality(FullLines(ParseInput)), rt.max)
        lines == [j \in 1..n |-> LineAt(ParseInput, NthOf(FullLines(ParseInput), j))]
    IN rt.out = SelectSeq([j \in 1..n |-> IconLabelAsWritten(lines[j])], Truthy)


(***************************************************************************)
(* Two admin section updates in flight at once against one document.       *)
(***************************************************************************)
Editors == {1, 2}
MetaEdits ==
  {WithCsrf(JObj(<<Text("title", <<"X">>), Text("description", <<"x">>)>>)),
   WithCsrf(JObj(<<Text("title", <<"Y">>)>>))}
HeroEdits == {WithCsrf(HeroBase)}

InitEditors ==
  /\ InitCommon
  /\ fs = [f \in Paths |->
             IF f = SITE_JSON_PATH THEN OnDisk(f, AdminSite)
             ELSE IF f = SUBMISSIONS_JSON_PATH THEN OnDisk(f, InitialLog)
             ELSE Absent]
  /\ rt = RtOff

NextEditors ==
  \/ \E p \in Editors, body \in MetaEdits : PostMeta(p, body)
  \/ \E p \in Editors, body \in HeroEdits : PostHero(p, body)
  \/ \E p \in Editors : AdminRead(p)
  \/ \E p \in Editors : ReadError(p)
  \/ \E k \in 1..Len(jobs) : JobStart(k)
  \/ \E k \in 1..Len(jobs) : JobSkip(k)
  \/ \E k \in 1..Len(jobs) : MkdirOk(k)
  \/ \E k \in 1..Len(jobs) : MkdirFail(k)
  \/ \E k \in 1..Len(jobs) : WriteFileOpen(k)
  \/ \E k \in 1..Len(jobs) : WriteFileOk(k)
  \/ \E k \in 1..Len(jobs) : WriteFileFail(k)
  \/ \E k \in 1..Len(jobs) : RenameOk(k)
  \/ \E k \in 1..Len(jobs) : RenameFail(k)

SpecEditors == InitEditors /\ [][NextEditors]_vars

\* The document the request of p handed to writeJsonAtomic.
WrittenBy(p) == Written(op[p].route, op[p].body, op[p].current)
HasEnqueued(p) ==
  IF IsAdmin(op[p])
  THEN pc[p] = "await" \/ (pc[p] = "done" /\ outcome[p].enqueued)
  ELSE FALSE
Saved(p) == IF HasEnqueued(p) THEN pc[p] = "done" /\ outcome[p].status = "ok" ELSE FALSE

\* C23: concurrent section updates end in last-writer-wins and never in a
\* corrupt file: the document file always holds, whole, the starting
\* document or the document one request handed to the writer, and once two
\* requests have both been saved it holds exactly the document of the one
\* enqueued later, whether or not that document has the other's change.
C23_LastWriterWinsNoMixture ==
  /\ fs[SITE_JSON_PATH].kind = "file"
  /\ fs[SITE_JSON_PATH].complete
  /\ CurrentSite \in {AdminSite} \cup {WrittenBy(p) : p \in {q \in Editors : HasEnqueued(q)}}
  /\ \A p, q \in Editors :
       Saved(p) /\ Saved(q) /\ outcome[p].stamp < outcome[q].stamp
         => CurrentSite = WrittenBy(q)
\* Both requests read the starting document before either wrote; the hero
\* update was enqueued last and the file has lost the meta update.
C23_Witness ==
  \E p, q \in Editors :
    /\ Saved(p) /\ Saved(q)
    /\ op[p].route = "meta" /\ op[q].route = "hero"
    /\ op[p].current = AdminSite /\ op[q].current = AdminSite
    /\ outcome[p].stamp < outcome[q].stamp
    /\ Get(CurrentSite, "meta") = Get(AdminSite, "meta")
    /\ Get(Get(CurrentSite, "hero"), "firstName") = JStr(<<"A", "d", "a">>)




(***************************************************************************)
(* Properties of POST /admin/nav and POST /admin/section/:id (SpecAdmin).  *)
(***************************************************************************)
\* A link of the form that has an id and a label but whose id is not an
\* identifier.
MalformedLink(l) ==
  /\ GroupText(l, "id") # <<>>
  /\ GroupText(l, "label") # <<>>
  /\ ~IdPattern(GroupText(l, "id"))
HasMalformedLink(o) ==
  \E i \in 1..Len(normalizeArray(Get(o.body, "links"))) :
    MalformedLink(normalizeArray(Get(o.body, "links"))[i])
NavRequest == IF IsAdmin(op[1]) THEN op[1].route = "nav" ELSE FALSE

\* C24: a nav update containing a link whose id does not match the
\* identifier pattern is rejected with a reason of its own: it is never
\* accepted, and once answered it carries a rejection reason.
C24_MalformedIdRejected ==
  NavRequest /\ HasMalformedLink(op[1]) =>
    /\ ~Accepted(op[1])
    /\ pc[1] = "done" => ErrorOf(op[1]) # NoError


SectionRequest == IF IsAdmin(op[1]) THEN op[1].route = "section" ELSE FALSE
WellFormedSection(body) ==
  /\ SectionId(body) \in EDITABLE_SECTIONS
  /\ SectionJsonText(body).complete
  /\ SectionJsonText(body).text.t = "t_object"

\* C29: POST /admin/section/:id enqueues a write only when the id is one of
\* the 13 editable section names and the JSON parses to a non-array object;
\* the document written has the keys of the document read plus the section,
\* every other section as it was read, and under the id the caller's object
\* with nothing of the previous section: as given for meta and nav, and
\* with enabled set from the form for every other section.
C29_SectionReplacedWholesale ==
  SectionRequest /\ Accepted(op[1]) =>
    LET id == SectionId(op[1].body)
        parsed == FromText(SectionJsonText(op[1].body).text)
        saved == lastEnq[SITE_JSON_PATH]
    IN /\ Cardinality(EDITABLE_SECTIONS) = 13
       /\ assertCsrf(op[1].body)
       /\ WellFormedSection(op[1].body)
       /\ KeysOf(saved) = KeysOf(op[1].current) \cup {id}
       /\ \A k \in KeysOf(op[1].current) \ {id} : Get(saved, k) = Get(op[1].current, k)
       /\ id \in {"meta", "nav"} => Get(saved, id) = parsed
       /\ id \notin {"meta", "nav"} =>
            /\ KeysOf(Get(saved, id)) = KeysOf(parsed) \cup {"enabled"}
            /\ Get(Get(saved, id), "enabled") = JBool(parseEnabled(Get(op[1].body, "enabled")))
            /\ \A k \in KeysOf(parsed) \ {"enabled"} : Get(Get(saved, id), k) = Get(parsed, k)
C29_Witness ==
  /\ SectionRequest
  /\ pc[1] = "done"
  /\ outcome[1].status = "ok"
  /\ SectionId(op[1].body) = "hero"
  /\ Get(op[1].current, "hero") = Get(AdminSite, "hero")
  /\ Get(CurrentSite, "hero")
       = JObj(<<Member("enabled", JBool(TRUE)), Text("title", <<"N">>)>>)
  /\ Get(CurrentSite, "meta") = Get(AdminSite, "meta")


\* The document file is missing or does not parse.
DocumentMissing ==
  \/ fs[SITE_JSON_PATH] = Absent
  \/ ~JSONparse(fs[SITE_JSON_PATH]).ok
\* What the handler finds wrong with the form before it reads the document.
CheckedBeforeRead(o) ==
  CASE o.route = "meta" -> MetaError(o.body)
    [] o.route = "projects" -> ProjectsError(o.body)
    [] o.route = "experience" -> ExperienceError(o.body)
    [] o.route = "contact" -> ContactError(o.body)
    [] o.route = "nav" -> NavError(o.body)
    [] o.route = "section" -> SectionJsonError(o.body)
    [] OTHER -> NoError

\* C30: while the document file is missing or does not parse, no
\* per-section update (form or per-section verbatim) enqueues a write, and
\* one whose session and form are in order is answered "Missing
\* site.json"; only POST /admin/site enqueues a write in that state.
C30_NoSectionWriteWithoutDocument ==
  IsAdmin(op[1]) /\ DocumentMissing =>
    /\ enqCount > 0 => op[1].route = "site"
    /\ op[1].route # "site" =>
         /\ jobs = <<>> /\ fs[SiteTmp] = Absent
         /\ pc[1] = "done" /\ outcome[1].status # "error" =>
              /\ ErrorOf(op[1]) # NoError
              /\ assertCsrf(op[1].body) /\ CheckedBeforeRead(op[1]) = NoError =>
                   ErrorOf(op[1]) = "Missing site.json"
C30_Witness ==
  /\ SectionRequest
  /\ pc[1] = "done"
  /\ fs[SITE_JSON_PATH] = File(TGarbage, TRUE)
  /\ WellFormedSection(op[1].body)
  /\ ErrorOf(op[1]) = "Missing site.json"


\* C26: readJson rethrows every I/O failure other than file-not-found
\* (permission denied, device error) to its caller, whatever the file
\* holds, and never returns the fallback for it.
C26_OtherIoErrorsSurface ==
  (rt.pc = "read" /\ rt.ioerr \notin {"none", "ENOENT"}) =>
    /\ ~rt.res.ok
    /\ rt.res = Thrown(rt.ioerr, "Error")
    /\ rt.res # Returned(rt.fallback)

\* A device error on a file that holds no JSON was thrown to the caller.
C26_Witness ==
  /\ rt.pc = "read"
  /\ rt.ioerr = "EIO"
  /\ fs[SITE_JSON_PATH] = File(TGarbage, TRUE)
  /\ rt.res = Thrown("EIO", "Error")



(***************************************************************************)
(* POST /api/contact run alone with its mail configuration: one request    *)
(* that passes the input checks, the environment variables the mailer      *)
(* reads, and sendMail succeeding or throwing.  rt holds the environment,  *)
(* the number of sendMail calls, the statuses patchSubmission was called   *)
(* with, and the block of the handler the last patch was issued from.      *)
(***************************************************************************)
EnvNames == {"SMTP_HOST", "SMTP_PORT", "SMTP_USER", "SMTP_PASS", "CONTACT_TO", "SMTP_FROM"}

\* process.env: a string or undefined for each name.
EnvValues(name) ==
  IF name = "SMTP_PORT"
  THEN {JUndefined, JStr(<<"5", "8", "7">>), JStr(<<"0">>), JStr(<<"s", "m">>)}
  ELSE {JUndefined, JStr(<<>>), JStr(<<"v">>)}
Envs == {e \in [EnvNames -> UNION {EnvValues(n) : n \in EnvNames}] :
           \A n \in EnvNames : e[n] \in EnvValues(n)}

\* Number(s) for a string of decimal digits ('' and blanks give 0); any
\* other string here gives NaN.
RECURSIVE Decimal(_)
Decimal(s) ==
  IF s = <<>> THEN 0
  ELSE Decimal(SubSeq(s, 1, Len(s) - 1)) * 10
         + (CHOOSE d \in 0..9 : Digits[d + 1] = s[Len(s)])
Number(v) ==
  IF Trim(v.s) = <<>> THEN JNum(0)
  ELSE IF \A i \in 1..Len(Trim(v.s)) : \E d \in 1..10 : Digits[d] = Trim(v.s)[i]
    THEN JNum(Decimal(Trim(v.s)))
  ELSE JNaN

\* buildMailer(): TRUE for a transport, FALSE for null.
buildMailer_Always(env) == TRUE
buildMailer(env) ==
  LET port == IF Truthy(env["SMTP_PORT"]) THEN Number(env["SMTP_PORT"]) ELSE JUndefined
  IN ~(\/ ~Truthy(env["SMTP_HOST"])
       \/ ~Truthy(port)
       \/ ~Truthy(env["SMTP_USER"])
       \/ ~Truthy(env["SMTP_PASS"]))

\* requireEnv(name): FALSE when it throws.
requireEnv(env, name) == Truthy(env[name])

\* The handler reaches transport.sendMail.
ReachesSendMail(env) ==
  IF buildMailer(env) THEN requireEnv(env, "CONTACT_TO") /\ requireEnv(env, "SMTP_FROM")
  ELSE FALSE

InitMail ==
  /\ InitCommon
  /\ fs = [f \in Paths |->
             IF f = SITE_JSON_PATH THEN OnDisk(f, InitialSite)
             ELSE IF f = SUBMISSIONS_JSON_PATH THEN OnDisk(f, InitialLog)
             ELSE Absent]
  /\ \E e \in Envs :
       rt = [pc |-> "contact", env |-> e, mails |-> 0, patches |-> <<>>, block |-> "none"]

\* await patchSubmission(submissionId, {status}) is called from a block of
\* the handler.
IssuePatch(p, id, status, block, sent) ==
  /\ op' = [op EXCEPT ![p] = [kind |-> "patch", current |-> JUndefined, id |-> id,
                              patch |-> StatusPatch(status)]]
  /\ pc' = [pc EXCEPT ![p] = "read"]
  /\ rt' = [rt EXCEPT !.patches = Append(@, status), !.block = block,
                      !.mails = @ + sent]
  /\ UNCHANGED <<fs, jobs, outcome, enqCount, completions, lastEnq, calls>>

\* buildMailer() returns null, or requireEnv throws.
MailNotConfigured(p) ==
  /\ pc[p] = "mail"
  /\ ~ReachesSendMail(rt.env)
  /\ IssuePatch(p, Get(op[p].submission, "id").s, "email_not_configured", "final", 0)

\* await transport.sendMail(...) returns: the patch is issued inside the
\* try block.
SendMailOk(p) ==
  /\ pc[p] = "mail"
  /\ ReachesSendMail(rt.env)
  /\ IssuePatch(p, Get(op[p].submission, "id").s, "sent", "try", 1)

\* await transport.sendMail(...) throws: the catch block issues the patch.
SendMailThrows(p) ==
  /\ pc[p] = "mail"
  /\ ReachesSendMail(rt.env)
  /\ IssuePatch(p, Get(op[p].submission, "id").s, "send_failed", "final", 1)

\* await patchSubmission(submissionId, {status: 'sent'}) throws inside the
\* try block: the catch block issues its patch.
PatchThrowsInTry(p) ==
  /\ pc[p] = "done"
  /\ op[p].kind = "patch"
  /\ outcome[p].status = "error"
  /\ rt.block = "try"
  /\ IssuePatch(p, op[p].id, "send_failed", "final", 0)

\* The record is in the log when its patch reads it, so that
\* patchSubmission never returns at idx === -1 here.
NextMail ==
  \/ CallContact(1)
  \/ MailNotConfigured(1)
  \/ SendMailOk(1)
  \/ SendMailThrows(1)
  \/ PatchThrowsInTry(1)
  \/ ReadThenAppend(1)
  \/ ReadThenPatch(1)
  \/ ReadError(1)
  \/ \E k \in 1..Len(jobs) : JobStart(k)
  \/ \E k \in 1..Len(jobs) : JobSkip(k)
  \/ \E k \in 1..Len(jobs) : MkdirOk(k)
  \/ \E k \in 1..Len(jobs) : MkdirFail(k)
  \/ \E k \in 1..Len(jobs) : WriteFileOpen(k)
  \/ \E k \in 1..Len(jobs) : WriteFileOk(k)
  \/ \E k \in 1..Len(jobs) : WriteFileFail(k)
  \/ \E k \in 1..Len(jobs) : RenameOk(k)
  \/ \E k \in 1..Len(jobs) : RenameFail(k)

SpecMail == InitMail /\ [][NextMail]_vars

(***************************************************************************)
(* Properties of POST /api/contact run alone (SpecMail).                   *)
(***************************************************************************)
\* The handler has returned or thrown: no call of it is outstanding and no
\* catch block is about to run.
HandlerEnded ==
  /\ pc[1] = "done"
  /\ ~(op[1].kind = "patch" /\ outcome[1].status = "error" /\ rt.block = "try")

\* What the client gets: res.json({ok: true}), a 500 the handler sends, or
\* the error thrown out of the handler.
Response ==
  IF outcome[1].status = "error" THEN "thrown"
  ELSE IF rt.patches # <<>> /\ rt.patches[Len(rt.patches)] = "sent" THEN "ok"
  ELSE "error_500"

\* The status of the request's record in submissions.json, 'none' without
\* a record.
OwnId == IF op[1].kind = "patch" THEN op[1].id ELSE Get(op[1].submission, "id").s
StatusOnDisk ==
  IF InLog(CurrentLog, OwnId)
  THEN Get(CurrentLog.items[FindIndex(CurrentLog.items, OwnId)], "status").s
  ELSE "none"

\* One of the six variables is missing (unset or empty).
MissingConfiguration(env) == \E n \in EnvNames : env[n] \in {JUndefined, JStr(<<>>)}

\* C25: with any of SMTP_HOST, SMTP_PORT, SMTP_USER, SMTP_PASS, CONTACT_TO
\* or SMTP_FROM missing, a valid POST /api/contact never calls sendMail, is
\* answered with an error, and, when its writes succeed, leaves its record
\* in the log with status 'email_not_configured'.
C25_NotConfiguredNeverSends ==
  (rt.pc = "contact" /\ MissingConfiguration(rt.env)) =>
    /\ rt.mails = 0
    /\ \A i \in 1..Len(rt.patches) : rt.patches[i] = "email_not_configured"
    /\ HandlerEnded => Response # "ok"
    /\ HandlerEnded /\ outcome[1].status = "ok" =>
         /\ Response = "error_500"
         /\ StatusOnDisk = "email_not_configured"
C25_Witness ==
  /\ rt.pc = "contact"
  /\ rt.env["SMTP_HOST"] = JStr(<<"v">>)
  /\ rt.env["SMTP_PORT"] = JStr(<<"5", "8", "7">>)
  /\ rt.env["SMTP_USER"] = JStr(<<"v">>)
  /\ rt.env["SMTP_PASS"] = JStr(<<"v">>)
  /\ rt.env["CONTACT_TO"] = JStr(<<"v">>)
  /\ rt.env["SMTP_FROM"] = JUndefined
  /\ HandlerEnded
  /\ Response = "error_500"
  /\ StatusOnDisk = "email_not_configured"
  /\ rt.mails = 0


\* C27: an accepted POST /api/contact appends its record with status
\* 'received' before any patch, then issues exactly one patch, with 'sent'
\* when the mail was sent, 'send_failed' when sendMail threw and
\* 'email_not_configured' otherwise; run alone, once it has ended with its
\* patch written, the record on disk has that status and not 'received'.
C27_OneTerminalPatch ==
  rt.pc = "contact" =>
    /\ rt.patches # <<>> => StatusOnDisk # "none"
    /\ Len(rt.patches) <= 1
    /\ \A i \in 1..Len(rt.patches) : rt.patches[i] \in Statuses
    /\ HandlerEnded /\ op[1].kind = "patch" => Len(rt.patches) = 1
    /\ HandlerEnded /\ op[1].kind = "patch" /\ outcome[1].status = "ok" =>
         /\ StatusOnDisk = rt.patches[1]
         /\ StatusOnDisk # "received"



(***************************************************************************)
(* The admin session: GET /admin/login mints the CSRF token, POST          *)
(* /admin/login sets the user, POST /admin/logout destroys the session,    *)
(* and one admin request (process 1) runs behind requireAuth.  rt holds    *)
(* the session, the users file, the number of tokens minted and the body   *)
(* of the last login request.                                              *)
(***************************************************************************)
MaxTokens == 2

\* crypto.randomBytes(24).toString('hex'): a fresh token each time.
Token(n) == IF n = 1 THEN CsrfToken ELSE CsrfToken \o <<Digits[n + 1]>>

\* bcrypt: the hash of a password, and bcrypt.compare(password, hash); a
\* hash that is no string makes it throw, which leaves the session as it
\* was like a mismatch does.
Hash(password) == JStr(<<"$">> \o password)
Compare(password, hash) == hash = Hash(password)

UserRecord(name, password) ==
  JObj(<<Text("username", name), Member("passwordHash", Hash(password))>>)
Alice == <<"a", "l">>
Secret == <<"p", "w">>
UsersFiles ==
  {Absent, File(TGarbage, TRUE), OnDisk("users.json", EmptyArray),
   OnDisk("users.json", JArr(<<JNull, UserRecord(Alice, Secret)>>)),
   OnDisk("users.json", JObj(<<Text("username", Alice)>>))}

\* hasUsersFile(users)
hasUsersFile(users) == IF IsArray(users) THEN Len(users.items) > 0 ELSE FALSE

\* users.find((u) => u && u.username === username), JUndefined when none.
FindUser(users, username) ==
  LET hits == {i \in 1..Len(users.items) :
                 Truthy(users.items[i]) /\ Get(users.items[i], "username") = JStr(username)}
  IN IF hits = {} THEN JUndefined ELSE users.items[Least(hits)]

\* POST /admin/login: the user the session gets, JUndefined when the
\* request is turned down.
LoginUser(users, body) ==
  LET username == Trim(IF Truthy(Get(body, "username")) THEN ToStr(Get(body, "username"))
                       ELSE <<>>)
      password == IF Truthy(Get(body, "password")) THEN ToStr(Get(body, "password")) ELSE <<>>
  IN IF ~hasUsersFile(users) THEN JUndefined
     ELSE IF ~Truthy(FindUser(users, username)) THEN JUndefined
     ELSE IF ~Compare(password, Get(FindUser(users, username), "passwordHash")) THEN JUndefined
     ELSE JObj(<<Text("username", username)>>)

NoLogin == JObj(<<>>)
InitAuth ==
  /\ InitCommon
  /\ fs = [f \in Paths |->
             IF f = SITE_JSON_PATH THEN OnDisk(f, AdminSite)
             ELSE IF f = SUBMISSIONS_JSON_PATH THEN OnDisk(f, InitialLog)
             ELSE Absent]
  /\ \E users \in UsersFiles :
       rt = [pc |-> "session", user |-> JUndefined, csrfToken |-> JUndefined,
             usersFile |-> users, minted |-> 0, login |-> NoLogin]

\* GET /admin/login (and GET /admin): ensureCsrf(req).
GetLogin ==
  /\ ~Truthy(rt.csrfToken)
  /\ rt.minted < MaxTokens
  /\ rt' = [rt EXCEPT !.csrfToken = JStr(Token(rt.minted + 1)), !.minted = @ + 1]
  /\ UNCHANGED <<fs, jobs, pc, op, outcome, enqCount, completions, lastEnq, calls>>

\* POST /admin/login
PostLogin(body) ==
  /\ rt' = [rt EXCEPT
              !.login = body,
              !.user =
                IF ~assertCsrf(body) THEN @
                ELSE IF Truthy(LoginUser(readJson(rt.usersFile, "none", EmptyArray).value, body))
                  THEN LoginUser(readJson(rt.usersFile, "none", EmptyArray).value, body)
                ELSE @]
  /\ UNCHANGED <<fs, jobs, pc, op, outcome, enqCount, completions, lastEnq, calls>>

\* POST /admin/logout: req.session.destroy.
PostLogout(body) ==
  /\ assertCsrf(body)
  /\ rt' = [rt EXCEPT !.user = JUndefined, !.csrfToken = JUndefined]
  /\ UNCHANGED <<fs, jobs, pc, op, outcome, enqCount, completions, lastEnq, calls>>

\* requireAuth in front of a handler: res.redirect('/admin/login').
RedirectToLogin(p, route, body) ==
  /\ pc[p] = "idle"
  /\ ~requireAuth
  /\ Reject(p, AdminOp(route, body), "Login required")
AuthPostMeta(p, body) ==
  /\ requireAuth
  /\ PostMeta(p, body)
AuthPostSite(p, body) ==
  /\ requireAuth
  /\ PostSite(p, body)
AuthPostSection(p, body) ==
  /\ requireAuth
  /\ PostSection(p, body)

\* The forms sent: with no token, an empty one, and each token minted.
CsrfValues == {JUndefined, JStr(<<>>)} \cup {JStr(Token(n)) : n \in 1..MaxTokens}
AnyCsrf(bodies) == {SetKey(b, "_csrf", t) : b \in bodies, t \in CsrfValues}
LoginRequests ==
  AnyCsrf({JObj(<<Member("username", u), Member("password", w)>>) :
             u \in {JUndefined, JStr(Alice), JStr(<<" ">> \o Alice \o <<" ">>), JStr(<<"b">>)},
             w \in {JUndefined, JStr(Secret), JStr(Secret \o <<" ">>)}})
AuthMetaRequests == AnyCsrf({JObj(<<Text("title", <<"T">>)>>)})
AuthSiteRequests ==
  AnyCsrf({JObj(<<Member("siteJson",
                         JText(File(Raw(NewSite(SomeSection, SomeSection, SomeSection)), TRUE)))>>)})
AuthSectionRequests ==
  AnyCsrf({JObj(<<Member(":id", Param("blog")),
                  Member("sectionJson", JText(File(Raw(SomeSection), TRUE)))>>)})

NextAuth ==
  \/ GetLogin
  \/ \E body \in LoginRequests : PostLogin(body)
  \/ \E body \in AnyCsrf({JObj(<<>>)}) : PostLogout(body)
  \/ \E route \in {"meta", "site", "section"}, body \in AuthMetaRequests :
       RedirectToLogin(1, route, body)
  \/ \E body \in AuthMetaRequests : AuthPostMeta(1, body)
  \/ \E body \in AuthSiteRequests : AuthPostSite(1, body)
  \/ \E body \in AuthSectionRequests : AuthPostSection(1, body)
  \/ AdminRead(1)
  \/ ReadError(1)
  \/ \E k \in 1..Len(jobs) : JobStart(k)
  \/ \E k \in 1..Len(jobs) : MkdirOk(k)
  \/ \E k \in 1..Len(jobs) : MkdirFail(k)
  \/ \E k \in 1..Len(jobs) : WriteFileOpen(k)
  \/ \E k \in 1..Len(jobs) : WriteFileOk(k)
  \/ \E k \in 1..Len(jobs) : WriteFileFail(k)
  \/ \E k \in 1..Len(jobs) : RenameOk(k)
  \/ \E k \in 1..Len(jobs) : RenameFail(k)

SpecAuth == InitAuth /\ [][NextAuth]_vars

\* A request passes requireAuth and assertCsrf in this step: its handler
\* goes on to read the document or to enqueue its write.
Admitted == pc[1] = "idle" /\ pc'[1] \in {"read", "await"}
\* The session gets a user in this step.
LoggedIn == ~Truthy(rt.user) /\ Truthy(rt'.user)
ValidLogin(session, users, body) ==
  /\ session.csrfToken \in {JStr(Token(n)) : n \in 1..MaxTokens}
  /\ Get(body, "_csrf") = session.csrfToken
  /\ Get(body, "username").type = "string"
  /\ Get(body, "password").type = "string"
  /\ \E i \in 1..Len(users.items) :
       /\ users.items[i].type = "object"
       /\ Get(users.items[i], "username") = JStr(Trim(Get(body, "username").s))
       /\ Get(users.items[i], "passwordHash") = Hash(Get(body, "password").s)

\* C28: a write to the document file is enqueued only by a request that
\* passed requireAuth and assertCsrf, and a request passes them only when
\* the session has a user and a non-empty CSRF token equal to the request's
\* _csrf; the session gets a user only in a login whose _csrf is the
\* session's token, whose username is in the users file and whose password
\* matches that user's hash.
AuthStep ==
  /\ enqCount' > enqCount => pc'[1] = "await" /\ pc[1] \in {"idle", "read"}
  /\ pc'[1] = "read" => pc[1] \in {"idle", "read"}
  /\ Admitted =>
       /\ Truthy(rt.user)
       /\ rt.csrfToken \in {JStr(Token(n)) : n \in 1..MaxTokens}
       /\ Get(op'[1].body, "_csrf") = rt.csrfToken
  /\ LoggedIn =>
       /\ IsArray(readJson(rt.usersFile, "none", EmptyArray).value)
       /\ ValidLogin(rt, readJson(rt.usersFile, "none", EmptyArray).value, rt'.login)
       /\ rt'.user = JObj(<<Text("username", Trim(Get(rt'.login, "username").s))>>)
C28_WritesNeedSessionAndToken == [][AuthStep]_vars
C28_Witness ==
  /\ rt.pc = "session"
  /\ rt.user = JObj(<<Text("username", Alice)>>)
  /\ Get(rt.login, "username") = JStr(<<" ">> \o Alice \o <<" ">>)
  /\ pc[1] = "done"
  /\ outcome[1].status = "ok"
  /\ op[1].route = "site"
  /\ rt.minted = 1

====
